---- MODULE Spec2Model ----
(***************************************************************************)
(* A model of the rune virtual machine (crates/rune/src/runtime): the      *)
(* instruction loop Vm::run with its instruction budget, call frames,      *)
(* the calling conventions, Try, and generators.                           *)
(*                                                                         *)
(* The thread's Rust call stack is the sequence `callstack`: a frame is    *)
(* either a budget::with scope, a host budget::acquire guard, or an        *)
(* active Vm::run (which owns a guard obtained from budget::acquire).      *)
(***************************************************************************)
EXTENDS Integers, Sequences, FiniteSets, TLC

\* ------------------------------------------------------------------------
\* Bounds of the model

\* usize is modelled UsizeBits wide; usize::MAX is the "no budget" value.
UsizeBits == 5
\* Largest budget the host installs with budget::with.
MaxBudget == 5
\* Host scopes (budget::with, budget::acquire) nested at most this deep.
MaxNest == 2
\* The host calls take() at most this often on one acquired guard.
MaxTakes == 4
\* Instructions executed by one execution before the model stops it.
MaxSteps == 40
\* Largest argument value the host passes to an entry point.
MaxArg == 2
\* The host calls next() at most this often on one generator.
MaxNexts == 5
\* Script integers are modelled IntBits wide (two's complement).
IntBits == 6

UsizeMax == 2 ^ UsizeBits - 1
IntMax == 2 ^ (IntBits - 1) - 1
IntMin == -(2 ^ (IntBits - 1))

Min(a, b) == IF a < b THEN a ELSE b

\* ------------------------------------------------------------------------
\* Values (runtime::Value).  v is the payload: the integer, the boolean as
\* 0/1, the payload of Ok/Err/Some, or the heap index of a coroutine.

Val(t, v) == [t |-> t, v |-> v]
IntV(n) == Val("Int", n)
BoolV(b) == Val("Bool", IF b THEN 1 ELSE 0)
UnitV == Val("Unit", 0)
EmptyV == Val("Empty", 0)

\* Output::discard() and out.as_addr()
Discard == -1

IsInline(x) == x.t \in {"Int", "Bool", "Unit"}
IsAny(x) ==
    x.t \in {"Ok", "Err", "Some", "None", "Foo", "Bar", "Generator", "Future", "Stream"}

\* ------------------------------------------------------------------------
\* Halts and results of operations

\* k is the kind of halt, addr and out its addresses, err the kind of the
\* VmError, actual and expected the fields of BadArgumentCount; op, lhs, rhs
\* and operand are the fields of the Unsupported*Operation errors; select is
\* the FuturesUnordered of Awaited::Select; index and length are the fields
\* of OutOfRange.
Halt(k, addr, out, err, actual, expected) ==
    [k |-> k, addr |-> addr, out |-> out, err |-> err,
     actual |-> actual, expected |-> expected,
     op |-> "", lhs |-> "", rhs |-> "", operand |-> "", select |-> {},
     index |-> 0, length |-> 0]
NoHalt == Halt("None", Discard, Discard, "", 0, 0)
Exited(a) == Halt("Exited", a, Discard, "", 0, 0)
Yielded(a, o) == Halt("Yielded", a, o, "", 0, 0)
Limited == Halt("Limited", Discard, Discard, "", 0, 0)
VmErr(e) == Halt("Error", Discard, Discard, e, 0, 0)
\* VmErrorKind::BadArgumentCount { actual, expected }
BadArgumentCount(actual, expected) ==
    Halt("Error", Discard, Discard, "BadArgumentCount", actual, expected)

\* VmErrorKind::OutOfRange { index, length }
OutOfRange(index, length) ==
    [VmErr("OutOfRange") EXCEPT !.index = index, !.length = length]

\* VmHalt::Awaited(Awaited::Select(select, value))
Awaited(select, value) ==
    [Halt("Awaited", Discard, value, "", 0, 0) EXCEPT !.select = select]

\* value.type_info()
type_info(value) == value.t
\* VmErrorKind::UnsupportedBinaryOperation { op, lhs, rhs }
UnsupportedBinaryOperation(op, lhs, rhs) ==
    [VmErr("UnsupportedBinaryOperation") EXCEPT !.op = op, !.lhs = lhs, !.rhs = rhs]
\* VmErrorKind::UnsupportedUnaryOperation { op, operand }
UnsupportedUnaryOperation(op, operand) ==
    [VmErr("UnsupportedUnaryOperation") EXCEPT !.op = op, !.operand = operand]

Res(vm, heap, halt) == [vm |-> vm, heap |-> heap, halt |-> halt]

\* The element of a set of one element; {e(x) : x \in {v}} computes v once
\* for all its uses in e.
The(S) == CHOOSE x \in S : TRUE

\* ------------------------------------------------------------------------
\* The thread-local budget cell (budget/no_std.rs)

\* rune_budget_replace(value): stores value, returns the old one.
rune_budget_replace(cell, value) == [cell |-> value, old |-> cell]

\* rune_budget_get()
rune_budget_get(cell) == cell

\* ------------------------------------------------------------------------
\* BudgetGuard (budget.rs).  A guard is the usize it holds.

\* budget::replace(budget): the guard holds the previous budget.
replace(cell, n) ==
    LET r == rune_budget_replace(cell, n) IN [cell |-> r.cell, guard |-> r.old]

\* budget::acquire(): takes the budget out of the cell, leaving usize::MAX.
acquire(cell) ==
    LET r == rune_budget_replace(cell, UsizeMax) IN [cell |-> r.cell, guard |-> r.old]

\* Variants of take that differ from budget.rs: refusing the last unit,
\* never refusing, and granting without consuming.
take_offbyone(g) ==
    IF g = UsizeMax THEN [guard |-> g, ok |-> TRUE]
    ELSE IF g <= 1 THEN [guard |-> g, ok |-> FALSE]
    ELSE [guard |-> g - 1, ok |-> TRUE]

take_unchecked(g) ==
    IF g = UsizeMax \/ g = 0 THEN [guard |-> g, ok |-> TRUE]
    ELSE [guard |-> g - 1, ok |-> TRUE]

take_nodec(g) ==
    IF g = UsizeMax THEN [guard |-> g, ok |-> TRUE]
    ELSE IF g = 0 THEN [guard |-> g, ok |-> FALSE]
    ELSE [guard |-> g, ok |-> TRUE]

\* BudgetGuard::take: [guard after, returned bool]
take(g) ==
    IF g = UsizeMax THEN [guard |-> g, ok |-> TRUE]
    ELSE IF g = 0 THEN [guard |-> g, ok |-> FALSE]
    ELSE [guard |-> g - 1, ok |-> TRUE]

\* <BudgetGuard as Drop>::drop: the held value goes back into the cell.
drop(cell, g) == rune_budget_replace(cell, g).cell

\* A variant of Budget::call whose guard holds the new budget.
BudgetCall_keep(cell, n) ==
    LET r == rune_budget_replace(cell, n) IN [cell |-> r.cell, guard |-> n]

\* <Budget<T> as Callable>::call, entry: the guard made from the replaced
\* budget, before self.value.call().
BudgetCall(cell, n) ==
    LET r == rune_budget_replace(cell, n) IN [cell |-> r.cell, guard |-> r.old]

\* A variant of the end of Budget::poll that does not store what is left.
Budget_poll_end_keep(cell, guard, this) == [budget |-> this, cell |-> drop(cell, guard)]

\* <Budget<T> as Future>::poll, entry: the budget of the future is installed
\* and the guard holds the budget of the thread.
Budget_poll_begin(cell, this) ==
    LET r == rune_budget_replace(cell, this) IN [cell |-> r.cell, guard |-> r.old]

\* <Budget<T> as Future>::poll, past this.value.poll(cx): the budget of the
\* future becomes what is left in the cell, then the guard is dropped.
Budget_poll_end(cell, guard, this) ==
    [budget |-> rune_budget_get(cell), cell |-> drop(cell, guard)]

\* ------------------------------------------------------------------------
\* Stack (runtime/stack.rs): a vector of values and the top offset that is
\* the base of the current call frame.  S is a record with fields
\* stack and top; a Vm record carries the same two fields.

\* Stack::addr(): the address of the next value pushed.
StackAddr(S) == Len(S.stack) - S.top

\* Stack::at(addr): out of bounds reads give the empty value.
StackAt(S, addr) ==
    IF addr >= 0 /\ S.top + addr < Len(S.stack)
    THEN S.stack[S.top + addr + 1] ELSE EmptyV

InBounds(S, addr) == addr >= 0 /\ S.top + addr < Len(S.stack)

\* Stack::store(out, value) on an in-bounds address or on discard.
StackStore(S, out, value) ==
    IF out = Discard THEN S
    ELSE [S EXCEPT !.stack[S.top + out + 1] = value]

StoreOk(S, out) == out = Discard \/ InBounds(S, out)

\* Stack::push(value)
StackPush(S, value) == [S EXCEPT !.stack = Append(@, value)]

\* Stack::truncate(addr)
StackTruncate(S, addr) ==
    [S EXCEPT !.stack = SubSeq(@, 1, Min(Len(@), S.top + addr))]

\* Stack::resize(size): the frame gets exactly size slots.
StackResize(S, size) ==
    IF size = 0 THEN S
    ELSE [S EXCEPT !.stack =
            [i \in 1..(S.top + size) |->
                IF i <= Len(S.stack) THEN S.stack[i] ELSE EmptyV]]

\* Stack::clear()
StackClear(S) == [S EXCEPT !.stack = <<>>, !.top = 0]

\* Stack::slice_at_mut(addr, len) succeeds
SliceOk(S, addr, len) == addr >= 0 /\ S.top + addr + len <= Len(S.stack)

\* Stack::swap_top(addr, len): the len values at addr are copied to the end
\* of the stack, which becomes the new frame; returns the old top.
swap_top(S, addr, len) ==
    [S EXCEPT !.stack = @ \o [i \in 1..len |-> S.stack[S.top + addr + i]],
              !.top = Len(S.stack)]

\* Stack::pop_stack_top(top): the current frame is dropped from the stack
\* and the given top restored.
pop_stack_top(S, top) ==
    [S EXCEPT !.stack = SubSeq(@, 1, Min(Len(@), S.top)), !.top = top]

\* ------------------------------------------------------------------------
\* The unit: function table and instruction array (the programs the model
\* runs).  Every instruction has length 1.

Inst(op, a, b, out, val, hash) ==
    [op |-> op, a |-> a, b |-> b, out |-> out, val |-> val, hash |-> hash]

Instructions == <<
    \* pub fn main_loop() { let i = 0; while true { i += 1 } }
    (* 0 *) Inst("Allocate", 2, 0, Discard, EmptyV, ""),
    (* 1 *) Inst("Store", 0, 0, 0, IntV(0), ""),
    (* 2 *) Inst("Store", 0, 0, 1, IntV(1), ""),
    (* 3 *) Inst("Add", 0, 1, 0, EmptyV, ""),
    (* 4 *) Inst("Jump", 3, 0, Discard, EmptyV, ""),
    \* pub fn rec(n) { if n == 0 { 0 } else { rec(n - 1) + 1 } }
    (* 5 *) Inst("Allocate", 3, 0, Discard, EmptyV, ""),
    (* 6 *) Inst("EqSigned", 0, 0, 1, IntV(0), ""),
    (* 7 *) Inst("JumpIfNot", 1, 10, Discard, EmptyV, ""),
    (* 8 *) Inst("Store", 0, 0, 1, IntV(0), ""),
    (* 9 *) Inst("Return", 1, 0, Discard, EmptyV, ""),
    (* 10 *) Inst("Store", 0, 0, 1, IntV(1), ""),
    (* 11 *) Inst("Sub", 0, 1, 1, EmptyV, ""),
    (* 12 *) Inst("Call", 1, 1, 2, EmptyV, "rec"),
    (* 13 *) Inst("Store", 0, 0, 1, IntV(1), ""),
    (* 14 *) Inst("Add", 2, 1, 2, EmptyV, ""),
    (* 15 *) Inst("Return", 2, 0, Discard, EmptyV, ""),
    \* pub fn f(x) { if x < 0 { Err(7) } else { Ok(x + x) } }
    (* 16 *) Inst("Allocate", 3, 0, Discard, EmptyV, ""),
    (* 17 *) Inst("Store", 0, 0, 1, IntV(0), ""),
    (* 18 *) Inst("Lt", 0, 1, 1, EmptyV, ""),
    (* 19 *) Inst("JumpIfNot", 1, 23, Discard, EmptyV, ""),
    (* 20 *) Inst("Store", 0, 0, 1, IntV(7), ""),
    (* 21 *) Inst("Call", 1, 1, 2, EmptyV, "Err"),
    (* 22 *) Inst("Return", 2, 0, Discard, EmptyV, ""),
    (* 23 *) Inst("Add", 0, 0, 1, EmptyV, ""),
    (* 24 *) Inst("Call", 1, 1, 2, EmptyV, "Ok"),
    (* 25 *) Inst("Return", 2, 0, Discard, EmptyV, ""),
    \* pub fn main_try(x) { f(x)? }
    (* 26 *) Inst("Allocate", 3, 0, Discard, EmptyV, ""),
    (* 27 *) Inst("Call", 0, 1, 1, EmptyV, "f"),
    (* 28 *) Inst("Try", 1, 0, 2, EmptyV, ""),
    (* 29 *) Inst("Return", 2, 0, Discard, EmptyV, ""),
    \* pub fn outer(x) { main_try(x) }
    (* 30 *) Inst("Allocate", 2, 0, Discard, EmptyV, ""),
    (* 31 *) Inst("Call", 0, 1, 1, EmptyV, "main_try"),
    (* 32 *) Inst("Return", 1, 0, Discard, EmptyV, ""),
    \* pub fn bad() { f(1, 2) }
    (* 33 *) Inst("Allocate", 3, 0, Discard, EmptyV, ""),
    (* 34 *) Inst("Store", 0, 0, 0, IntV(1), ""),
    (* 35 *) Inst("Store", 0, 0, 1, IntV(2), ""),
    (* 36 *) Inst("Call", 0, 2, 2, EmptyV, "f"),
    (* 37 *) Inst("ReturnUnit", 0, 0, Discard, EmptyV, ""),
    \* pub fn g(a) { yield a; yield a + 1; yield a + 2; }
    (* 38 *) Inst("Allocate", 2, 0, Discard, EmptyV, ""),
    (* 39 *) Inst("Yield", 0, 0, 1, EmptyV, ""),
    (* 40 *) Inst("Store", 0, 0, 1, IntV(1), ""),
    (* 41 *) Inst("Add", 0, 1, 0, EmptyV, ""),
    (* 42 *) Inst("Yield", 0, 0, 1, EmptyV, ""),
    (* 43 *) Inst("Store", 0, 0, 1, IntV(1), ""),
    (* 44 *) Inst("Add", 0, 1, 0, EmptyV, ""),
    (* 45 *) Inst("Yield", 0, 0, 1, EmptyV, ""),
    (* 46 *) Inst("ReturnUnit", 0, 0, Discard, EmptyV, ""),
    \* pub fn main_gen(a) { g(a) }, and the same over the async and the
    \* stream variant of g
    (* 47 *) Inst("Allocate", 2, 0, Discard, EmptyV, ""),
    (* 48 *) Inst("Call", 0, 1, 1, EmptyV, "g"),
    (* 49 *) Inst("Return", 1, 0, Discard, EmptyV, ""),
    (* 50 *) Inst("Allocate", 2, 0, Discard, EmptyV, ""),
    (* 51 *) Inst("Call", 0, 1, 1, EmptyV, "g_async"),
    (* 52 *) Inst("Return", 1, 0, Discard, EmptyV, ""),
    (* 53 *) Inst("Allocate", 2, 0, Discard, EmptyV, ""),
    (* 54 *) Inst("Call", 0, 1, 1, EmptyV, "g_stream"),
    (* 55 *) Inst("Return", 1, 0, Discard, EmptyV, ""),
    \* pub fn main_proto(x) { x + 5 }, with Foo::ADD a function of the unit
    (* 56 *) Inst("Allocate", 3, 0, Discard, EmptyV, ""),
    (* 57 *) Inst("Store", 0, 0, 1, IntV(5), ""),
    (* 58 *) Inst("Add", 0, 1, 2, EmptyV, ""),
    (* 59 *) Inst("Return", 2, 0, Discard, EmptyV, ""),
    \* fn add(self, rhs) { rhs }
    (* 60 *) Inst("Return", 1, 0, Discard, EmptyV, ""),
    \* pub fn main_proto_bad(x) { x - 5 }, with Foo::SUB declared with one
    \* argument
    (* 61 *) Inst("Allocate", 3, 0, Discard, EmptyV, ""),
    (* 62 *) Inst("Store", 0, 0, 1, IntV(5), ""),
    (* 63 *) Inst("Sub", 0, 1, 2, EmptyV, ""),
    (* 64 *) Inst("Return", 2, 0, Discard, EmptyV, ""),
    \* pub fn main_assoc(x) { x.get() }
    (* 65 *) Inst("Allocate", 2, 0, Discard, EmptyV, ""),
    (* 66 *) Inst("CallAssociated", 0, 1, 1, EmptyV, "get"),
    (* 67 *) Inst("Return", 1, 0, Discard, EmptyV, ""),
    \* fn get(self) { self }
    (* 68 *) Inst("Return", 0, 0, Discard, EmptyV, ""),
    \* pub fn main_assoc_bad(x): x.get called with two arguments
    (* 69 *) Inst("Allocate", 3, 0, Discard, EmptyV, ""),
    (* 70 *) Inst("CallAssociated", 0, 2, 2, EmptyV, "get"),
    (* 71 *) Inst("Return", 2, 0, Discard, EmptyV, ""),
    \* pub fn main_mul(x) { x * 5 }, with Foo::MUL a native function
    (* 72 *) Inst("Allocate", 3, 0, Discard, EmptyV, ""),
    (* 73 *) Inst("Store", 0, 0, 1, IntV(5), ""),
    (* 74 *) Inst("Mul", 0, 1, 2, EmptyV, ""),
    (* 75 *) Inst("Return", 2, 0, Discard, EmptyV, ""),
    \* pub fn main_opt(o) { o? }
    (* 76 *) Inst("Allocate", 2, 0, Discard, EmptyV, ""),
    (* 77 *) Inst("Try", 0, 0, 1, EmptyV, ""),
    (* 78 *) Inst("Return", 1, 0, Discard, EmptyV, ""),
    \* pub fn outer_opt(o) { main_opt(o) }
    (* 79 *) Inst("Allocate", 2, 0, Discard, EmptyV, ""),
    (* 80 *) Inst("Call", 0, 1, 1, EmptyV, "main_opt"),
    (* 81 *) Inst("Return", 1, 0, Discard, EmptyV, ""),
    \* pub fn function(argument) {}
    (* 82 *) Inst("ReturnUnit", 0, 0, Discard, EmptyV, ""),
    \* pub fn tuple(argument) { Tuple(argument) }
    (* 83 *) Inst("Allocate", 2, 0, Discard, EmptyV, ""),
    (* 84 *) Inst("Call", 0, 1, 1, EmptyV, "Tuple"),
    (* 85 *) Inst("Return", 1, 0, Discard, EmptyV, ""),
    \* pub fn variant(argument) { Enum::Variant(argument) }
    (* 86 *) Inst("Allocate", 2, 0, Discard, EmptyV, ""),
    (* 87 *) Inst("Call", 0, 1, 1, EmptyV, "Enum::Variant"),
    (* 88 *) Inst("Return", 1, 0, Discard, EmptyV, "")
>>

\* UnitFn::Offset { offset, call, args }
UnitFnOffset(offset, call, args) == [offset |-> offset, call |-> call, args |-> args]

UnitFunctions ==
    [h \in {"main_loop", "rec", "f", "main_try", "outer", "bad", "g", "g_async",
            "g_stream", "main_gen", "main_async", "main_stream", "main_proto",
            "Foo::ADD", "main_proto_bad", "Foo::SUB", "main_assoc", "Foo::get",
            "main_assoc_bad", "main_mul", "main_opt", "outer_opt", "Bar::ADD",
            "Bar::get", "function", "tuple", "variant", "Tuple::ADD",
            "Foo::iter", "Foo::fut", "Foo::stream"} |->
        CASE h = "main_loop" -> UnitFnOffset(0, "Immediate", 0)
          [] h = "rec" -> UnitFnOffset(5, "Immediate", 1)
          [] h = "f" -> UnitFnOffset(16, "Immediate", 1)
          [] h = "main_try" -> UnitFnOffset(26, "Immediate", 1)
          [] h = "outer" -> UnitFnOffset(30, "Immediate", 1)
          [] h = "bad" -> UnitFnOffset(33, "Immediate", 0)
          [] h = "g" -> UnitFnOffset(38, "Generator", 1)
          [] h = "g_async" -> UnitFnOffset(38, "Async", 1)
          [] h = "g_stream" -> UnitFnOffset(38, "Stream", 1)
          [] h = "main_gen" -> UnitFnOffset(47, "Immediate", 1)
          [] h = "main_async" -> UnitFnOffset(50, "Immediate", 1)
          [] h = "main_stream" -> UnitFnOffset(53, "Immediate", 1)
          [] h = "main_proto" -> UnitFnOffset(56, "Immediate", 1)
          [] h = "Foo::ADD" -> UnitFnOffset(60, "Immediate", 2)
          [] h = "main_proto_bad" -> UnitFnOffset(61, "Immediate", 1)
          [] h = "Foo::SUB" -> UnitFnOffset(60, "Immediate", 1)
          [] h = "main_assoc" -> UnitFnOffset(65, "Immediate", 1)
          [] h = "Foo::get" -> UnitFnOffset(68, "Immediate", 1)
          [] h = "main_assoc_bad" -> UnitFnOffset(69, "Immediate", 1)
          [] h = "main_mul" -> UnitFnOffset(72, "Immediate", 1)
          [] h = "main_opt" -> UnitFnOffset(76, "Immediate", 1)
          [] h = "outer_opt" -> UnitFnOffset(79, "Immediate", 1)
          [] h = "Bar::ADD" -> UnitFnOffset(60, "Immediate", 2)
          [] h = "Bar::get" -> UnitFnOffset(68, "Immediate", 1)
          [] h = "function" -> UnitFnOffset(82, "Immediate", 1)
          [] h = "tuple" -> UnitFnOffset(83, "Immediate", 1)
          [] h = "variant" -> UnitFnOffset(86, "Immediate", 1)
          \* a function of the unit under the hash of ADD for the struct Tuple
          [] h = "Tuple::ADD" -> UnitFnOffset(60, "Immediate", 2)
          \* instance functions of Foo that are a generator, async and a stream
          [] h = "Foo::iter" -> UnitFnOffset(38, "Generator", 1)
          [] h = "Foo::fut" -> UnitFnOffset(38, "Async", 1)
          [] h = "Foo::stream" -> UnitFnOffset(38, "Stream", 1)]

\* UnitFn::TupleStruct { hash, args }: struct Tuple(internal) and
\* enum Enum { Variant(internal) }
UnitFnTupleStruct(hash, args) == [hash |-> hash, args |-> args]
UnitTupleStructs ==
    [h \in {"Tuple", "Enum::Variant"} |-> UnitFnTupleStruct(h, 1)]
UnitHasTupleStruct(hash) == hash \in DOMAIN UnitTupleStructs

\* Unit::function(hash)
UnitHas(hash) == hash \in DOMAIN UnitFunctions

\* Unit::instruction_at(ip)
IpInBounds(ip) == ip >= 0 /\ ip < Len(Instructions)
instruction_at(ip) == Instructions[ip + 1]

\* RuntimeContext::function(hash): the native handlers.  The type Bar has
\* ADD and get both as functions of the unit and as native functions.
ContextFunctions == {"Ok", "Err", "Foo::MUL", "Bar::ADD", "Bar::get", "Bar::NOT"}
ContextHas(hash) == hash \in ContextFunctions

\* ------------------------------------------------------------------------
\* Vm (runtime/vm.rs).  A Vm is [ip, stack, top, call_frames]; the heap holds
\* the coroutine objects (Generator, Future, Stream), each owning its Vm.

\* Vm::with_stack(context, unit, stack)
with_stack(stack) == [ip |-> 0, stack |-> stack, top |-> 0, call_frames |-> <<>>]

\* CallFrame { ip, top, isolated, out }
CallFrame(ip, top, isolated, out) ==
    [ip |-> ip, top |-> top, isolated |-> isolated, out |-> out]

\* check_args(args, expected)
check_args(args, expected) == args = expected

\* Stack::swap_top(addr, args) succeeds (the arguments are on the stack)
SwapOk(S, addr, args) == args = 0 \/ SliceOk(S, addr, args)

\* Vm::push_call_frame, past the ? on swap_top
push_call_frame_callee_ip(vm, ip, addr, args, isolated, out) ==
    LET S == swap_top(vm, addr, args) IN
    [S EXCEPT !.ip = ip,
              !.call_frames = Append(@, CallFrame(ip, vm.top, isolated, out))]

push_call_frame(vm, ip, addr, args, isolated, out) ==
    LET S == swap_top(vm, addr, args) IN
    [S EXCEPT !.ip = ip,
              !.call_frames = Append(@, CallFrame(vm.ip, vm.top, isolated, out))]

\* A variant of pop_call_frame that leaves ip in the callee.
pop_call_frame_keep_ip(vm) ==
    IF vm.call_frames = <<>>
    THEN [vm |-> pop_stack_top(vm, 0), isolated |-> TRUE, some |-> FALSE, out |-> Discard]
    ELSE LET frame == vm.call_frames[Len(vm.call_frames)] IN
         [vm |-> [pop_stack_top(vm, frame.top) EXCEPT
                    !.call_frames = SubSeq(@, 1, Len(@) - 1)],
          isolated |-> frame.isolated, some |-> TRUE, out |-> frame.out]

\* A variant of pop_call_frame that leaves the stack of the entry function
\* as it is when there is no call frame.
pop_call_frame_keep_stack(vm) ==
    IF vm.call_frames = <<>>
    THEN [vm |-> vm, isolated |-> TRUE, some |-> FALSE, out |-> Discard]
    ELSE LET frame == vm.call_frames[Len(vm.call_frames)] IN
         [vm |-> [pop_stack_top(vm, frame.top) EXCEPT
                    !.ip = frame.ip,
                    !.call_frames = SubSeq(@, 1, Len(@) - 1)],
          isolated |-> frame.isolated, some |-> TRUE, out |-> frame.out]

\* Vm::pop_call_frame: [vm, isolated, some, out]
pop_call_frame(vm) ==
    IF vm.call_frames = <<>>
    THEN [vm |-> pop_stack_top(vm, 0), isolated |-> TRUE, some |-> FALSE, out |-> Discard]
    ELSE LET frame == vm.call_frames[Len(vm.call_frames)] IN
         [vm |-> [pop_stack_top(vm, frame.top) EXCEPT
                    !.ip = frame.ip,
                    !.call_frames = SubSeq(@, 1, Len(@) - 1)],
          isolated |-> frame.isolated, some |-> TRUE, out |-> frame.out]

\* Vm::op_return_internal
op_return_internal(vm, heap, return_value) ==
    LET p == pop_call_frame(vm) IN
    IF p.some
    THEN IF ~StoreOk(p.vm, p.out) THEN Res(p.vm, heap, VmErr("StackError"))
         ELSE Res(StackStore(p.vm, p.out, return_value), heap,
                  IF p.isolated THEN Exited(p.out) ELSE NoHalt)
    ELSE LET addr == StackAddr(p.vm) IN
         Res(StackPush(p.vm, return_value), heap,
             IF p.isolated THEN Exited(addr) ELSE NoHalt)

\* Vm::op_return
op_return(vm, heap, addr) == op_return_internal(vm, heap, StackAt(vm, addr))

\* Vm::op_return_unit
op_return_unit(vm, heap) ==
    LET p == pop_call_frame(vm) IN
    IF p.some
    THEN IF ~StoreOk(p.vm, p.out) THEN Res(p.vm, heap, VmErr("StackError"))
         ELSE Res(StackStore(p.vm, p.out, UnitV), heap,
                  IF p.isolated THEN Exited(p.out) ELSE NoHalt)
    ELSE LET addr == StackAddr(p.vm) IN
         Res(StackPush(p.vm, UnitV), heap,
             IF p.isolated THEN Exited(addr) ELSE NoHalt)

\* A store that is the last effect of an instruction.
StoreRes(vm, heap, out, value) ==
    IF StoreOk(vm, out) THEN Res(StackStore(vm, out, value), heap, NoHalt)
    ELSE Res(vm, heap, VmErr("StackError"))

\* Vm::op_allocate
op_allocate(vm, heap, size) == Res(StackResize(vm, size), heap, NoHalt)

\* Vm::op_store
op_store(vm, heap, value, out) == StoreRes(vm, heap, out, value)

\* Vm::op_jump
op_jump(vm, heap, jump) == Res([vm EXCEPT !.ip = jump], heap, NoHalt)

\* A variant of op_jump_if that jumps on every condition but false.
op_jump_if_truthy(vm, heap, cond, jump) ==
    IF StackAt(vm, cond) # BoolV(FALSE)
    THEN Res([vm EXCEPT !.ip = jump], heap, NoHalt)
    ELSE Res(vm, heap, NoHalt)

\* Vm::op_jump_if
op_jump_if(vm, heap, cond, jump) ==
    IF StackAt(vm, cond) = BoolV(TRUE)
    THEN Res([vm EXCEPT !.ip = jump], heap, NoHalt)
    ELSE Res(vm, heap, NoHalt)

\* Vm::op_jump_if_not
op_jump_if_not(vm, heap, cond, jump) ==
    IF StackAt(vm, cond) = BoolV(FALSE)
    THEN Res([vm EXCEPT !.ip = jump], heap, NoHalt)
    ELSE Res(vm, heap, NoHalt)

\* Vm::op_eq_signed
op_eq_signed(vm, heap, addr, value, out) ==
    LET actual == StackAt(vm, addr) IN
    StoreRes(vm, heap, out, BoolV(actual.t = "Int" /\ actual.v = value))

\* Vm::internal_cmp with the Ordering::Less matcher (InstOp::Lt), on inline
\* integers; other operands have no partial ordering in the model's unit.
op_lt(vm, heap, lhs, rhs, out) ==
    LET l == StackAt(vm, lhs)
        r == StackAt(vm, rhs) IN
    IF l.t = "Int" /\ r.t = "Int" THEN StoreRes(vm, heap, out, BoolV(l.v < r.v))
    ELSE Res(vm, heap, VmErr("UnsupportedBinaryOperation"))

\* ------------------------------------------------------------------------
\* Coroutine objects.  execution is the Option<VmExecution> of a Generator;
\* state and out are the VmExecution's state (Initial, Resumed(out),
\* Suspended, Exited).  log records what each next() of the host returned.

Coroutine(kind, vm) ==
    [kind |-> kind, vm |-> vm, execution |-> TRUE, state |-> "Initial", out |-> Discard,
     log |-> <<>>]

\* values.iter_mut().map(take) / for_each(consume) over slice_at_mut(addr, args)
TakeSlice(S, addr, args) ==
    [S EXCEPT !.stack =
        [i \in 1..Len(S.stack) |->
            IF i > S.top + addr /\ i <= S.top + addr + args THEN EmptyV ELSE S.stack[i]]]

Slice(S, addr, args) == [i \in 1..args |-> S.stack[S.top + addr + i]]

\* Vm::call_generator_fn, Vm::call_stream_fn, Vm::call_async_fn: the three
\* differ in the kind of object that wraps the fresh Vm.
call_coroutine_fn(vm, heap, kind, offset, addr, args, out) ==
    IF ~SliceOk(vm, addr, args) THEN Res(vm, heap, VmErr("StackError"))
    ELSE IF out # Discard
    THEN LET fresh == [with_stack(Slice(vm, addr, args)) EXCEPT !.ip = offset]
             taken == TakeSlice(vm, addr, args) IN
         IF ~InBounds(taken, out) THEN Res(taken, heap, VmErr("StackError"))
         ELSE Res(StackStore(taken, out, Val(kind, Len(heap) + 1)),
                  Append(heap, Coroutine(kind, fresh)), NoHalt)
    ELSE Res(TakeSlice(vm, addr, args), heap, NoHalt)

\* A variant of call_offset_fn that calls a generator function like an
\* Immediate one.
call_offset_fn_frame(vm, heap, offset, call, addr, args, isolated, out) ==
    IF call \in {"Immediate", "Generator"}
    THEN IF SwapOk(vm, addr, args)
         THEN [res |-> Res(push_call_frame(vm, offset, addr, args, isolated, out),
                           heap, NoHalt),
               moved |-> TRUE]
         ELSE [res |-> Res(vm, heap, VmErr("StackError")), moved |-> FALSE]
    ELSE [res |-> call_coroutine_fn(vm, heap,
                    CASE call = "Async" -> "Future"
                      [] OTHER -> "Stream",
                    offset, addr, args, out),
          moved |-> FALSE]

\* Vm::call_offset_fn: the result, and whether a call frame was pushed.
call_offset_fn(vm, heap, offset, call, addr, args, isolated, out) ==
    IF call = "Immediate"
    THEN IF SwapOk(vm, addr, args)
         THEN [res |-> Res(push_call_frame(vm, offset, addr, args, isolated, out),
                           heap, NoHalt),
               moved |-> TRUE]
         ELSE [res |-> Res(vm, heap, VmErr("StackError")), moved |-> FALSE]
    ELSE [res |-> call_coroutine_fn(vm, heap,
                    CASE call = "Async" -> "Future"
                      [] call = "Stream" -> "Stream"
                      [] OTHER -> "Generator",
                    offset, addr, args, out),
          moved |-> FALSE]

\* A variant of Foo::mul that adds.
Foo_mul_add(self, b) == Val("Foo", self.v + b.v)

\* Foo::mul(self, b: u32) of the example custom_mul
Foo_mul(self, b) == Val("Foo", self.v * b.v)

\* The native handlers of the context: handler.call(stack, addr, args, out).
\* Ok and Err wrap their argument; Foo::MUL is Foo::mul of custom_mul.rs.
HandlerCall(hash, vm, heap, addr, args, out) ==
    CASE hash \in {"Ok", "Err"} ->
            IF args # 1 THEN Res(vm, heap, BadArgumentCount(args, 1))
            ELSE StoreRes(vm, heap, out, Val(hash, StackAt(vm, addr).v))
      [] hash = "Foo::MUL" ->
            IF args # 2 THEN Res(vm, heap, BadArgumentCount(args, 2))
            ELSE IF StackAt(vm, addr + 1).t # "Int" \/ StackAt(vm, addr + 1).v < 0
            THEN Res(vm, heap, VmErr("BadArgument"))
            ELSE StoreRes(vm, heap, out,
                          Foo_mul(StackAt(vm, addr), StackAt(vm, addr + 1)))
      [] hash = "Bar::ADD" ->
            IF args # 2 THEN Res(vm, heap, BadArgumentCount(args, 2))
            ELSE StoreRes(vm, heap, out,
                          Val("Bar", StackAt(vm, addr).v + StackAt(vm, addr + 1).v))
      [] hash = "Bar::get" ->
            IF args # 1 THEN Res(vm, heap, BadArgumentCount(args, 1))
            ELSE StoreRes(vm, heap, out, IntV(StackAt(vm, addr).v))
      [] hash = "Bar::NOT" ->
            IF args # 1 THEN Res(vm, heap, BadArgumentCount(args, 1))
            ELSE StoreRes(vm, heap, out, Val("Bar", -StackAt(vm, addr).v - 1))
      [] OTHER -> Res(vm, heap, VmErr("MissingFunction"))

\* A variant of op_call that checks the argument count after the call.
op_call_late(vm, heap, hash, addr, args, out) ==
    IF ~UnitHas(hash)
    THEN IF ~ContextHas(hash) THEN Res(vm, heap, VmErr("MissingFunction"))
         ELSE HandlerCall(hash, vm, heap, addr, args, out)
    ELSE LET info == UnitFunctions[hash]
             c == call_offset_fn(vm, heap, info.offset, info.call, addr, args, FALSE,
                                 out).res IN
         IF ~check_args(args, info.args)
         THEN Res(c.vm, c.heap, BadArgumentCount(args, info.args))
         ELSE c

\* AnySequence::new(rtti, data): the cell of a tuple struct or variant
AnySequence(rtti, data) == [kind |-> "AnySequence", rtti |-> rtti, data |-> data]

\* Vm::op_call on UnitFn::TupleStruct
op_call_tuple_struct(vm, heap, hash, addr, args, out) ==
    LET info == UnitTupleStructs[hash] IN
    IF ~check_args(args, info.args) THEN Res(vm, heap, BadArgumentCount(args, info.args))
    ELSE IF ~SliceOk(vm, addr, args) THEN Res(vm, heap, VmErr("StackError"))
    ELSE StoreRes(TakeSlice(vm, addr, args),
                  Append(heap, AnySequence(info.hash, Slice(vm, addr, args))),
                  out, Val(info.hash, Len(heap) + 1))

\* Vm::op_call
op_call(vm, heap, hash, addr, args, out) ==
    IF UnitHasTupleStruct(hash) THEN op_call_tuple_struct(vm, heap, hash, addr, args, out)
    ELSE IF ~UnitHas(hash)
    THEN IF ~ContextHas(hash) THEN Res(vm, heap, VmErr("MissingFunction"))
         ELSE HandlerCall(hash, vm, heap, addr, args, out)
    ELSE LET info == UnitFunctions[hash] IN
         IF ~check_args(args, info.args)
         THEN Res(vm, heap, BadArgumentCount(args, info.args))
         ELSE call_offset_fn(vm, heap, info.offset, info.call, addr, args, FALSE, out).res

\* Hash::associated_function(type_hash, hash)
associated_function(type_hash, hash) == type_hash \o "::" \o hash

\* Value::type_hash
type_hash(value) == value.t

\* Variant of op_call_associated that looks the hash up in the unit first.
op_call_associated_unit_first(vm, heap, name, addr, args, out) ==
    LET instance == StackAt(vm, addr)
        hash == associated_function(type_hash(instance), name) IN
    IF UnitHas(hash)
    THEN LET info == UnitFunctions[hash] IN
         IF ~check_args(args, info.args)
         THEN Res(vm, heap, BadArgumentCount(args, info.args))
         ELSE call_offset_fn(vm, heap, info.offset, info.call, addr, args, FALSE, out).res
    ELSE IF ContextHas(hash) THEN HandlerCall(hash, vm, heap, addr, args, out)
    ELSE Res(vm, heap, VmErr("MissingInstanceFunction"))

\* Vm::op_call_associated
op_call_associated(vm, heap, name, addr, args, out) ==
    LET instance == StackAt(vm, addr)
        hash == associated_function(type_hash(instance), name) IN
    IF ContextHas(hash) THEN HandlerCall(hash, vm, heap, addr, args, out)
    ELSE IF UnitHas(hash)
    THEN LET info == UnitFunctions[hash] IN
         IF ~check_args(args, info.args)
         THEN Res(vm, heap, BadArgumentCount(args, info.args))
         ELSE call_offset_fn(vm, heap, info.offset, info.call, addr, args, FALSE, out).res
    ELSE Res(vm, heap, VmErr("MissingInstanceFunction"))

RECURSIVE PushAll(_, _)
\* args.push_to_stack(&mut self.stack)
PushAll(S, values) ==
    IF values = <<>> THEN S ELSE PushAll(StackPush(S, Head(values)), Tail(values))

\* Vm::call_hash_with: [res, result] with result Ok, Frame or Unsupported
call_hash_with(vm, heap, isolated, hash, target, args, count, out) ==
    IF ContextHas(hash)
    THEN LET addr == StackAddr(vm)
             pushed == PushAll(StackPush(vm, target), args)
             r == HandlerCall(hash, pushed, heap, addr, count, out) IN
         [res |-> Res(StackTruncate(r.vm, addr), r.heap, r.halt), result |-> "Ok"]
    ELSE IF UnitHas(hash)
    THEN LET info == UnitFunctions[hash] IN
         IF ~check_args(count, info.args)
         THEN [res |-> Res(vm, heap, BadArgumentCount(count, info.args)),
               result |-> "Ok"]
         ELSE LET addr == StackAddr(vm)
                  pushed == PushAll(StackPush(vm, target), args)
                  c == call_offset_fn(pushed, heap, info.offset, info.call, addr, count,
                                      isolated, out) IN
              IF c.res.halt # NoHalt THEN [res |-> c.res, result |-> "Ok"]
              ELSE IF c.moved
              THEN [res |-> Res(StackTruncate(c.res.vm, addr), c.res.heap, NoHalt),
                    result |-> "Frame"]
              ELSE [res |-> c.res, result |-> "Ok"]
    ELSE [res |-> Res(vm, heap, NoHalt), result |-> "Unsupported"]

\* Vm::call_instance_fn
call_instance_fn(vm, heap, isolated, target, name, args, out) ==
    call_hash_with(vm, heap, isolated, associated_function(type_hash(target), name),
                   target, args, Len(args) + 1, out)

\* ArithmeticOps::from_op(op): the error and the protocol of the operation.
ArithmeticOps(op) ==
    CASE op = "Add" -> [error |-> "Overflow", protocol |-> "ADD"]
      [] op = "Sub" -> [error |-> "Underflow", protocol |-> "SUB"]
      [] op = "Mul" -> [error |-> "Overflow", protocol |-> "MUL"]
      [] op = "Div" -> [error |-> "DivideByZero", protocol |-> "DIV"]
      [] op = "Rem" -> [error |-> "DivideByZero", protocol |-> "REM"]

\* AssignArithmeticOps::from_op(op)
AssignArithmeticOps(op) ==
    [error |-> ArithmeticOps(op).error, protocol |-> ArithmeticOps(op).protocol \o "_ASSIGN"]

\* Integer division as the machine does it, rounding towards zero.
TruncDiv(l, r) ==
    LET q == (IF l < 0 THEN -l ELSE l) \div (IF r < 0 THEN -r ELSE r) IN
    IF (l < 0) # (r < 0) THEN -q ELSE q

\* The mathematical result of the operation, for a divisor that is not zero.
checked(op, l, r) ==
    CASE op = "Add" -> l + r
      [] op = "Sub" -> l - r
      [] op = "Mul" -> l * r
      [] op = "Div" -> TruncDiv(l, r)
      [] op = "Rem" -> l - r * TruncDiv(l, r)

Fits(n) == n >= IntMin /\ n <= IntMax

\* i64::checked_add, checked_sub, checked_mul, checked_div and checked_rem
\* return Some.
CheckedSome(op, l, r) ==
    IF op \in {"Div", "Rem"}
    THEN r # 0 /\ ~(l = IntMin /\ r = -1)
    ELSE Fits(checked(op, l, r))

\* Variant of op_arithmetic that ignores CallResult::Unsupported.
op_arithmetic_ignore(vm, heap, op, lhs, rhs, out) ==
    LET ops == ArithmeticOps(op)
        l == StackAt(vm, lhs)
        r == StackAt(vm, rhs)
        unsupported ==
            UnsupportedBinaryOperation(ops.protocol, type_info(l), type_info(r)) IN
    IF IsInline(l) /\ IsInline(r)
    THEN IF l.t = "Int"
         THEN IF r.t # "Int" THEN Res(vm, heap, VmErr("ExpectedNumber"))
              ELSE IF ~CheckedSome(op, l.v, r.v) THEN Res(vm, heap, VmErr(ops.error))
              ELSE StoreRes(vm, heap, out, IntV(checked(op, l.v, r.v)))
         ELSE Res(vm, heap, unsupported)
    ELSE IF IsAny(l)
    THEN call_instance_fn(vm, heap, FALSE, l, ops.protocol, <<r>>, out).res
    ELSE Res(vm, heap, unsupported)

\* Variant of op_arithmetic that falls back to the protocol function for
\* every left operand that is not inline.
op_arithmetic_all(vm, heap, op, lhs, rhs, out) ==
    LET ops == ArithmeticOps(op)
        l == StackAt(vm, lhs)
        r == StackAt(vm, rhs)
        unsupported ==
            UnsupportedBinaryOperation(ops.protocol, type_info(l), type_info(r)) IN
    IF IsInline(l) /\ IsInline(r)
    THEN IF l.t = "Int"
         THEN IF r.t # "Int" THEN Res(vm, heap, VmErr("ExpectedNumber"))
              ELSE IF ~CheckedSome(op, l.v, r.v) THEN Res(vm, heap, VmErr(ops.error))
              ELSE StoreRes(vm, heap, out, IntV(checked(op, l.v, r.v)))
         ELSE Res(vm, heap, unsupported)
    ELSE IF ~IsInline(l)
    THEN LET c == call_instance_fn(vm, heap, FALSE, l, ops.protocol, <<r>>, out) IN
         IF c.result = "Unsupported" THEN Res(vm, heap, unsupported) ELSE c.res
    ELSE Res(vm, heap, unsupported)

\* Vm::op_arithmetic
op_arithmetic(vm, heap, op, lhs, rhs, out) ==
    LET ops == ArithmeticOps(op)
        l == StackAt(vm, lhs)
        r == StackAt(vm, rhs)
        unsupported ==
            UnsupportedBinaryOperation(ops.protocol, type_info(l), type_info(r)) IN
    IF IsInline(l) /\ IsInline(r)
    THEN IF l.t = "Int"
         THEN \* rhs.as_integer()? fails on an inline value that is no number
              IF r.t # "Int" THEN Res(vm, heap, VmErr("ExpectedNumber"))
              ELSE IF ~CheckedSome(op, l.v, r.v) THEN Res(vm, heap, VmErr(ops.error))
              ELSE StoreRes(vm, heap, out, IntV(checked(op, l.v, r.v)))
         ELSE Res(vm, heap, unsupported)
    ELSE IF IsAny(l)
    THEN LET c == call_instance_fn(vm, heap, FALSE, l, ops.protocol, <<r>>, out) IN
         IF c.result = "Unsupported" THEN Res(vm, heap, unsupported) ELSE c.res
    ELSE Res(vm, heap, unsupported)

\* Vm::target_fallback_assign with TargetFallback::Value(lhs, rhs)
target_fallback_assign(vm, heap, lhs, rhs, protocol) ==
    LET c == call_instance_fn(vm, heap, FALSE, lhs, protocol, <<rhs>>, Discard) IN
    IF c.result = "Unsupported"
    THEN Res(vm, heap, UnsupportedBinaryOperation(protocol, type_info(lhs), type_info(rhs)))
    ELSE c.res

\* Variant of op_assign_arithmetic that clears the target before the checked
\* operation.
op_assign_arithmetic_clear(vm, heap, op, target, rhs) ==
    LET ops == AssignArithmeticOps(op)
        l == StackAt(vm, target)
        r == StackAt(vm, rhs)
        cleared == StackStore(vm, target, IntV(0))
        unsupported ==
            UnsupportedBinaryOperation(ops.protocol, type_info(l), type_info(r)) IN
    IF ~InBounds(vm, target) \/ ~InBounds(vm, rhs)
    THEN Res(vm, heap, VmErr("StackError"))
    ELSE IF target = rhs
    THEN IF l.t = "Int"
         THEN IF ~CheckedSome(op, l.v, l.v) THEN Res(cleared, heap, VmErr(ops.error))
              ELSE StoreRes(vm, heap, target, IntV(checked(op, l.v, l.v)))
         ELSE IF IsAny(l) THEN target_fallback_assign(vm, heap, l, l, ops.protocol)
         ELSE Res(vm, heap, unsupported)
    ELSE IF l.t = "Int" /\ IsInline(r)
    THEN IF r.t # "Int" THEN Res(vm, heap, VmErr("ExpectedNumber"))
         ELSE IF ~CheckedSome(op, l.v, r.v) THEN Res(cleared, heap, VmErr(ops.error))
         ELSE StoreRes(vm, heap, target, IntV(checked(op, l.v, r.v)))
    ELSE IF IsAny(l) THEN target_fallback_assign(vm, heap, l, r, ops.protocol)
    ELSE Res(vm, heap, unsupported)

\* Vm::op_assign_arithmetic with the target InstTarget::Address(target):
\* stack.pair(target, rhs) gives Same when the addresses are equal.
op_assign_arithmetic(vm, heap, op, target, rhs) ==
    LET ops == AssignArithmeticOps(op)
        l == StackAt(vm, target)
        r == StackAt(vm, rhs)
        unsupported ==
            UnsupportedBinaryOperation(ops.protocol, type_info(l), type_info(r)) IN
    IF ~InBounds(vm, target) \/ ~InBounds(vm, rhs)
    THEN Res(vm, heap, VmErr("StackError"))
    ELSE IF target = rhs
    THEN IF l.t = "Int"
         THEN IF ~CheckedSome(op, l.v, l.v) THEN Res(vm, heap, VmErr(ops.error))
              ELSE StoreRes(vm, heap, target, IntV(checked(op, l.v, l.v)))
         ELSE IF IsAny(l) THEN target_fallback_assign(vm, heap, l, l, ops.protocol)
         ELSE Res(vm, heap, unsupported)
    ELSE IF l.t = "Int" /\ IsInline(r)
    THEN IF r.t # "Int" THEN Res(vm, heap, VmErr("ExpectedNumber"))
         ELSE IF ~CheckedSome(op, l.v, r.v) THEN Res(vm, heap, VmErr(ops.error))
         ELSE StoreRes(vm, heap, target, IntV(checked(op, l.v, r.v)))
    ELSE IF IsAny(l) THEN target_fallback_assign(vm, heap, l, r, ops.protocol)
    ELSE Res(vm, heap, unsupported)

\* Option<Inline>
None == [some |-> FALSE, value |-> EmptyV]
Some(value) == [some |-> TRUE, value |-> value]

\* The closure of Vm::op_not: !value on a bool and on a signed integer.
NotInline(inline) ==
    CASE inline.t = "Bool" -> Some(Val("Bool", 1 - inline.v))
      [] inline.t = "Int" -> Some(IntV(-inline.v - 1))
      [] OTHER -> None

\* Vm::unary; applied is what the closure op gives for the operand.
unary(vm, heap, operand, out, protocol, applied) ==
    LET value == StackAt(vm, operand)
        unsupported == UnsupportedUnaryOperation(protocol, type_info(value)) IN
    IF IsAny(value)
    THEN LET c == call_instance_fn(vm, heap, FALSE, value, protocol, <<>>, out) IN
         IF c.result = "Unsupported" THEN Res(vm, heap, unsupported) ELSE c.res
    ELSE LET store == IF IsInline(value) THEN applied ELSE None IN
         IF ~store.some THEN Res(vm, heap, unsupported)
         ELSE StoreRes(vm, heap, out, store.value)

\* Vm::op_not
op_not(vm, heap, addr, out) ==
    unary(vm, heap, addr, out, "NOT", NotInline(StackAt(vm, addr)))

\* result::result_try and option::option_try: [break, value]
result_try(value) ==
    CASE value.t = "Ok" -> [break |-> FALSE, value |-> IntV(value.v)]
      [] value.t = "Err" -> [break |-> TRUE, value |-> Val("Err", value.v)]
      [] value.t = "Some" -> [break |-> FALSE, value |-> IntV(value.v)]
      [] value.t = "None" -> [break |-> TRUE, value |-> Val("None", 0)]

\* A variant of op_try that returns the payload of Err instead of the Err.
op_try_unwrap(vm, heap, addr, out) ==
    LET value == StackAt(vm, addr) IN
    IF value.t \in {"Ok", "Err", "Some", "None"}
    THEN LET result == result_try(value) IN
         IF result.break THEN op_return_internal(vm, heap, IntV(value.v))
         ELSE StoreRes(vm, heap, out, result.value)
    ELSE Res(vm, heap, VmErr("UnsupportedTryOperand"))

\* Vm::op_try
op_try(vm, heap, addr, out) ==
    LET value == StackAt(vm, addr) IN
    IF value.t \in {"Ok", "Err", "Some", "None"}
    THEN LET result == result_try(value) IN
         IF result.break THEN op_return_internal(vm, heap, result.value)
         ELSE StoreRes(vm, heap, out, result.value)
    ELSE Res(vm, heap, VmErr("UnsupportedTryOperand"))

\* Future::is_completed of the future object a value refers to
is_completed(heap, value) == ~heap[value.v].execution

\* SelectFuture::new(branch, future)
SelectFuture(branch, future) == [branch |-> branch, future |-> future]

\* Variant of op_select that keeps the completed futures.
op_select_all(vm, heap, addr, len, value) ==
    IF ~SliceOk(vm, addr, len)
    THEN [res |-> Res(vm, heap, VmErr("StackError")), some |-> FALSE, select |-> {}]
    ELSE IF \E branch \in 0..(len - 1) : StackAt(vm, addr + branch).t # "Future"
    THEN [res |-> Res(vm, heap, VmErr("ExpectedAny")), some |-> FALSE, select |-> {}]
    ELSE LET futures ==
                 {SelectFuture(vm.ip + branch, StackAt(vm, addr + branch).v) :
                     branch \in 0..(len - 1)} IN
         IF futures = {}
         THEN LET r == StoreRes(vm, heap, value, UnitV) IN
              [res |-> IF r.halt # NoHalt THEN r
                       ELSE Res([r.vm EXCEPT !.ip = @ + len], heap, NoHalt),
               some |-> FALSE, select |-> {}]
         ELSE [res |-> Res(vm, heap, NoHalt), some |-> TRUE, select |-> futures]

\* Vm::op_select: [res, some, select], with some and select the
\* Option<Select> returned
op_select(vm, heap, addr, len, value) ==
    IF ~SliceOk(vm, addr, len)
    THEN [res |-> Res(vm, heap, VmErr("StackError")), some |-> FALSE, select |-> {}]
    ELSE IF \E branch \in 0..(len - 1) : StackAt(vm, addr + branch).t # "Future"
    THEN [res |-> Res(vm, heap, VmErr("ExpectedAny")), some |-> FALSE, select |-> {}]
    ELSE LET futures ==
                 {SelectFuture(vm.ip + branch, StackAt(vm, addr + branch).v) :
                     branch \in {b \in 0..(len - 1) :
                                    ~is_completed(heap, StackAt(vm, addr + b))}} IN
         IF futures = {}
         THEN LET r == StoreRes(vm, heap, value, UnitV) IN
              [res |-> IF r.halt # NoHalt THEN r
                       ELSE Res([r.vm EXCEPT !.ip = @ + len], heap, NoHalt),
               some |-> FALSE, select |-> {}]
         ELSE [res |-> Res(vm, heap, NoHalt), some |-> TRUE, select |-> futures]

\* The match on inst.kind in the loop of Vm::run, ip already advanced.
Dispatch(inst, v, heap) ==
    CASE inst.op = "Allocate" -> op_allocate(v, heap, inst.a)
      [] inst.op = "Store" -> op_store(v, heap, inst.val, inst.out)
      [] inst.op = "Jump" -> op_jump(v, heap, inst.a)
      [] inst.op = "JumpIf" -> op_jump_if(v, heap, inst.a, inst.b)
      [] inst.op = "JumpIfNot" -> op_jump_if_not(v, heap, inst.a, inst.b)
      [] inst.op = "EqSigned" -> op_eq_signed(v, heap, inst.a, inst.val.v, inst.out)
      [] inst.op = "Lt" -> op_lt(v, heap, inst.a, inst.b, inst.out)
      [] inst.op \in {"Add", "Sub", "Mul", "Div", "Rem"} ->
           op_arithmetic(v, heap, inst.op, inst.a, inst.b, inst.out)
      [] inst.op = "Not" -> op_not(v, heap, inst.a, inst.out)
      [] inst.op = "Call" -> op_call(v, heap, inst.hash, inst.a, inst.b, inst.out)
      [] inst.op = "CallAssociated" ->
           op_call_associated(v, heap, inst.hash, inst.a, inst.b, inst.out)
      [] inst.op = "Return" -> op_return(v, heap, inst.a)
      [] inst.op = "ReturnUnit" -> op_return_unit(v, heap)
      [] inst.op = "Try" -> op_try(v, heap, inst.a, inst.out)
      [] inst.op = "Yield" -> Res(v, heap, Yielded(inst.a, inst.out))
      [] inst.op = "Select" ->
           LET s == op_select(v, heap, inst.a, inst.b, inst.out) IN
           IF s.some THEN Res(s.res.vm, s.res.heap, Awaited(s.select, inst.out))
           ELSE s.res
      [] OTHER -> Res(v, heap, VmErr("Panic"))

\* One iteration of the loop of Vm::run, past the budget check: fetch the
\* instruction at ip, advance ip, execute.
Exec(vm, heap) ==
    IF ~IpInBounds(vm.ip) THEN Res(vm, heap, VmErr("IpOutOfBounds"))
    ELSE Dispatch(instruction_at(vm.ip), [vm EXCEPT !.ip = vm.ip + 1], heap)

\* k iterations of the loop of Vm::run, or fewer up to a halt
RECURSIVE Iterate(_, _, _)
Iterate(v, h, k) ==
    IF k = 0 THEN Res(v, h, NoHalt)
    ELSE The({IF r.halt = NoHalt THEN Iterate(r.vm, r.heap, k - 1) ELSE r :
              r \in {Exec(v, h)}})

\* Vm::set_entrypoint: [ok, vm, err]
set_entrypoint(vm, name, count) ==
    IF UnitHasTupleStruct(name)
    THEN [ok |-> FALSE, vm |-> vm, err |-> VmErr("MissingFunction")]
    ELSE IF ~UnitHas(name) THEN [ok |-> FALSE, vm |-> vm, err |-> VmErr("MissingEntry")]
    ELSE LET info == UnitFunctions[name] IN
         IF ~check_args(count, info.args)
         THEN [ok |-> FALSE, vm |-> vm, err |-> BadArgumentCount(count, info.args)]
         ELSE [ok |-> TRUE,
               vm |-> [StackClear(vm) EXCEPT !.ip = info.offset, !.call_frames = <<>>],
               err |-> NoHalt]

\* Vm::execute, past set_entrypoint: args.into_stack(&mut self.stack)
execute(vm, name, args) ==
    LET e == set_entrypoint(vm, name, Len(args)) IN
    IF e.ok THEN [e EXCEPT !.vm = PushAll(e.vm, args)] ELSE e

\* The arguments of the host (GuardedArgs): a Value, a MyAny by value
\* ("any"), a &MyAny ("ref") or a &mut MyAny ("mut").
Arg(mode, value) == [mode |-> mode, value |-> value]

\* The cell of an any-object.  One made from a reference has a guard, and
\* is valid until the guard is dropped.
AnyObj(guarded) == [kind |-> "AnyObj", guarded |-> guarded, valid |-> TRUE]

RECURSIVE guarded_into_stack(_, _, _)
\* GuardedArgs::guarded_into_stack: the values are pushed in turn;
\* [vm, heap, guard], the guard holding the cells made from references.
guarded_into_stack(vm, heap, args) ==
    IF args = <<>> THEN [vm |-> vm, heap |-> heap, guard |-> {}]
    ELSE LET arg == Head(args)
             cell == Len(heap) + 1
         IN  IF arg.mode = "value"
             THEN guarded_into_stack(StackPush(vm, arg.value), heap, Tail(args))
             ELSE LET rest == guarded_into_stack(
                                StackPush(vm, Val("MyAny", cell)),
                                Append(heap, AnyObj(arg.mode \in {"ref", "mut"})),
                                Tail(args))
                  IN  IF arg.mode = "any" THEN rest
                      ELSE [rest EXCEPT !.guard = @ \cup {cell}]

\* drop(guard): the cells of the guard are invalidated
drop_guard(heap, guard) ==
    [i \in 1..Len(heap) |-> IF i \in guard THEN [heap[i] EXCEPT !.valid = FALSE] ELSE heap[i]]

\* VmExecution::complete on a fresh execution: [ok, vm, heap, value, err]
complete(vm, heap) ==
    The({IF r.halt.k = "Exited"
         THEN [ok |-> TRUE, vm |-> r.vm, heap |-> r.heap,
               value |-> IF r.halt.addr = Discard THEN UnitV
                         ELSE StackAt(r.vm, r.halt.addr),
               err |-> NoHalt]
         ELSE [ok |-> FALSE, vm |-> r.vm, heap |-> r.heap, value |-> EmptyV,
               err |-> r.halt] :
         r \in {Iterate(vm, heap, MaxSteps)}})

Vm_call_forget(vm, heap, name, args) ==
    LET e == set_entrypoint(vm, name, Len(args)) IN
    IF ~e.ok THEN [ok |-> FALSE, vm |-> e.vm, heap |-> heap, value |-> EmptyV, err |-> e.err]
    ELSE The({The({[c EXCEPT !.vm = StackClear(c.vm)] : c \in {complete(g.vm, g.heap)}}) :
              g \in {guarded_into_stack(e.vm, heap, args)}})

\* Vm::call: [ok, vm, heap, value, err].  ClearStack clears the stack when
\* the execution is over, then the guard is dropped.
Vm_call(vm, heap, name, args) ==
    LET e == set_entrypoint(vm, name, Len(args)) IN
    IF ~e.ok THEN [ok |-> FALSE, vm |-> e.vm, heap |-> heap, value |-> EmptyV, err |-> e.err]
    ELSE The({The({[c EXCEPT !.vm = StackClear(c.vm),
                             !.heap = drop_guard(c.heap, g.guard)] :
                   c \in {complete(g.vm, g.heap)}}) :
              g \in {guarded_into_stack(e.vm, heap, args)}})

\* DynamicTuple::first of a tuple struct or variant
tuple_first(heap, value) ==
    IF value.t \in DOMAIN UnitTupleStructs /\ heap[value.v].data # <<>>
    THEN Some(heap[value.v].data[1]) ELSE None

\* Value::borrow_ref::<MyAny>() succeeds
borrow_ref(heap, value) == value.t = "MyAny" /\ heap[value.v].valid

\* ------------------------------------------------------------------------
\* VmExecution and Generator (runtime/vm_execution.rs, runtime/generator.rs)

\* VmExecution::is_resumed
is_resumed(obj) == obj.state = "Resumed"

\* VmExecution::resume_with(value), before the run: the value is stored at
\* the output of the yield the execution is suspended in.
resume_with(obj, value) ==
    [obj EXCEPT !.state = "Suspended", !.out = Discard,
                !.vm = IF StoreOk(obj.vm, obj.out)
                       THEN StackStore(obj.vm, obj.out, value) ELSE obj.vm]

GState(r, value) == [r |-> r, value |-> value]

\* VmExecution::resume / resume_with, after Vm::run returned halt: the new
\* state of the execution and the GeneratorState (or error) it returns.
after_run(obj, rvm, halt) ==
    CASE halt.k = "Exited" ->
            [obj |-> [obj EXCEPT !.vm = rvm, !.state = "Exited"],
             state |-> GState("Complete",
                         IF halt.addr = Discard THEN UnitV ELSE StackAt(rvm, halt.addr))]
      [] halt.k = "Yielded" ->
            [obj |-> [obj EXCEPT !.vm = rvm, !.state = "Resumed", !.out = halt.out],
             state |-> GState("Yielded", StackAt(rvm, halt.addr))]
      [] OTHER ->
            [obj |-> [obj EXCEPT !.vm = rvm], state |-> GState("Error", EmptyV)]

\* A variant of Generator::resume that keeps a complete execution.
GeneratorResumed_keep(obj, state) == obj

\* Generator::resume, after the execution returned state: a complete
\* execution is dropped.
GeneratorResumed(obj, state) ==
    IF state.r = "Complete" THEN [obj EXCEPT !.execution = FALSE] ELSE obj

\* A variant of Generator::next that hands out the value of a complete
\* generator like a yielded one.
GeneratorNext_complete(state) ==
    CASE state.r = "Yielded" -> GState("Some", state.value)
      [] state.r = "Complete" -> GState("Some", state.value)
      [] OTHER -> state

\* Generator::next: the GeneratorState as an Option
GeneratorNext(state) ==
    CASE state.r = "Yielded" -> GState("Some", state.value)
      [] state.r = "Complete" -> GState("None", EmptyV)
      [] OTHER -> state

\* ------------------------------------------------------------------------
\* VecDeque: a ring buffer buf of capacity Len(buf), the first element at
\* the physical index head, len elements.  Physical indices count from 0.
\* ub records a copy outside the buffer or an overlapping
\* copy_nonoverlapping, panicked a failed assert!.

\* A slot that was never written.
Uninit == EmptyV

VecDeque(buf, head, len) ==
    [buf |-> buf, head |-> head, len |-> len, ub |-> FALSE, panicked |-> FALSE]

\* VecDeque::new
VecDeque_new == VecDeque(<<>>, 0, 0)

\* usize arithmetic wraps
wrapping(n) == n % (UsizeMax + 1)

capacity(d) == Len(d.buf)
is_full(d) == d.len = capacity(d)
is_empty(d) == d.len = 0

wrap_index(logical_index, cap) ==
    IF logical_index >= cap THEN logical_index - cap ELSE logical_index
wrap_add(d, idx, addend) == wrap_index(wrapping(idx + addend), capacity(d))
to_physical_idx(d, idx) == wrap_add(d, d.head, idx)
wrap_sub(d, idx, subtrahend) ==
    wrap_index(wrapping(wrapping(idx - subtrahend) + capacity(d)), capacity(d))

buffer_read(d, off) == IF off < capacity(d) THEN d.buf[off + 1] ELSE Uninit
buffer_write(d, off, value) ==
    IF off < capacity(d) THEN [d EXCEPT !.buf[off + 1] = value]
    ELSE [d EXCEPT !.ub = TRUE]

\* ptr::copy of len slots from src to dst
copy(d, src, dst, len) ==
    IF dst + len > capacity(d) \/ src + len > capacity(d) THEN [d EXCEPT !.ub = TRUE]
    ELSE [d EXCEPT !.buf = [i \in 1..capacity(d) |->
                              IF i - 1 >= dst /\ i - 1 < dst + len
                              THEN d.buf[i - dst + src] ELSE d.buf[i]]]

\* ptr::copy_nonoverlapping
copy_nonoverlapping(d, src, dst, len) ==
    IF len > 0 /\ src < dst + len /\ dst < src + len THEN [d EXCEPT !.ub = TRUE]
    ELSE copy(d, src, dst, len)

\* VecDeque::wrap_copy
wrap_copy(d, src, dst, len) ==
    IF src = dst \/ len = 0 THEN d
    ELSE LET dst_after_src == wrap_sub(d, dst, src) < len
             src_pre_wrap_len == capacity(d) - src
             dst_pre_wrap_len == capacity(d) - dst
             src_wraps == src_pre_wrap_len < len
             dst_wraps == dst_pre_wrap_len < len IN
         CASE ~src_wraps /\ ~dst_wraps -> copy(d, src, dst, len)
           [] ~dst_after_src /\ ~src_wraps /\ dst_wraps ->
                copy(copy(d, src, dst, dst_pre_wrap_len),
                     src + dst_pre_wrap_len, 0, len - dst_pre_wrap_len)
           [] dst_after_src /\ ~src_wraps /\ dst_wraps ->
                copy(copy(d, src + dst_pre_wrap_len, 0, len - dst_pre_wrap_len),
                     src, dst, dst_pre_wrap_len)
           [] ~dst_after_src /\ src_wraps /\ ~dst_wraps ->
                copy(copy(d, src, dst, src_pre_wrap_len),
                     0, dst + src_pre_wrap_len, len - src_pre_wrap_len)
           [] dst_after_src /\ src_wraps /\ ~dst_wraps ->
                copy(copy(d, 0, dst + src_pre_wrap_len, len - src_pre_wrap_len),
                     src, dst, src_pre_wrap_len)
           [] ~dst_after_src /\ src_wraps /\ dst_wraps ->
                LET delta == dst_pre_wrap_len - src_pre_wrap_len IN
                copy(copy(copy(d, src, dst, src_pre_wrap_len),
                          0, dst + src_pre_wrap_len, delta),
                     delta, 0, len - dst_pre_wrap_len)
           [] dst_after_src /\ src_wraps /\ dst_wraps ->
                LET delta == src_pre_wrap_len - dst_pre_wrap_len IN
                copy(copy(copy(d, 0, delta, len - src_pre_wrap_len),
                          capacity(d) - delta, 0, delta),
                     src, dst, dst_pre_wrap_len)

\* Variant of handle_capacity_increase that leaves a wrapped deque as it is.
handle_capacity_increase_nop(d, old_capacity) == d

\* VecDeque::handle_capacity_increase, the buffer already grown
handle_capacity_increase(d, old_capacity) ==
    LET new_capacity == capacity(d) IN
    IF d.head <= old_capacity - d.len THEN d
    ELSE LET head_len == old_capacity - d.head
             tail_len == d.len - head_len IN
         IF head_len > tail_len /\ new_capacity - old_capacity >= tail_len
         THEN copy_nonoverlapping(d, 0, old_capacity, tail_len)
         ELSE LET new_head == new_capacity - head_len IN
              [copy(d, d.head, new_head, head_len) EXCEPT !.head = new_head]

\* VecDeque::try_grow: [ok, d].  new_capacity is what try_reserve_for_push
\* allocated, 0 when the allocation failed; the slots added are not written.
try_grow(d, new_capacity) ==
    IF new_capacity <= capacity(d) THEN [ok |-> FALSE, d |-> d]
    ELSE [ok |-> TRUE,
          d |-> handle_capacity_increase(
                    [d EXCEPT !.buf = @ \o [i \in 1..(new_capacity - capacity(d)) |-> Uninit]],
                    capacity(d))]

\* A variant of pop_front that moves the head on without wrapping it.
pop_front_unwrapped(d) ==
    IF is_empty(d) THEN [d |-> d, ret |-> None]
    ELSE [d |-> [d EXCEPT !.head = @ + 1, !.len = @ - 1],
          ret |-> Some(buffer_read(d, d.head))]

\* VecDeque::pop_front: [d, ret]
pop_front(d) ==
    IF is_empty(d) THEN [d |-> d, ret |-> None]
    ELSE [d |-> [d EXCEPT !.head = to_physical_idx(d, 1), !.len = @ - 1],
          ret |-> Some(buffer_read(d, d.head))]

\* VecDeque::pop_back: [d, ret]
pop_back(d) ==
    IF is_empty(d) THEN [d |-> d, ret |-> None]
    ELSE LET popped == [d EXCEPT !.len = @ - 1] IN
         [d |-> popped, ret |-> Some(buffer_read(popped, to_physical_idx(popped, popped.len)))]

\* VecDeque::try_push_front: [ok, d]
try_push_front(d, value, new_capacity) ==
    LET g == IF is_full(d) THEN try_grow(d, new_capacity) ELSE [ok |-> TRUE, d |-> d] IN
    IF ~g.ok THEN g
    ELSE LET head == wrap_sub(g.d, g.d.head, 1) IN
         [ok |-> TRUE,
          d |-> buffer_write([g.d EXCEPT !.head = head, !.len = @ + 1], head, value)]

\* VecDeque::try_push_back: [ok, d]
try_push_back(d, value, new_capacity) ==
    LET g == IF is_full(d) THEN try_grow(d, new_capacity) ELSE [ok |-> TRUE, d |-> d] IN
    IF ~g.ok THEN g
    ELSE [ok |-> TRUE,
          d |-> [buffer_write(g.d, to_physical_idx(g.d, g.d.len), value)
                    EXCEPT !.len = @ + 1]]

is_contiguous(d) == d.head <= capacity(d) - d.len

\* VecDeque::slice_ranges(.., len): the two ranges [start, end)
slice_ranges(d, len) ==
    IF len = 0 THEN <<[start |-> 0, end |-> 0], [start |-> 0, end |-> 0]>>
    ELSE LET wrapped_start == to_physical_idx(d, 0)
             head_len == capacity(d) - wrapped_start IN
         IF head_len >= len
         THEN <<[start |-> wrapped_start, end |-> wrapped_start + len],
                [start |-> 0, end |-> 0]>>
         ELSE <<[start |-> wrapped_start, end |-> capacity(d)],
                [start |-> 0, end |-> len - head_len]>>

buffer_range(d, range) == SubSeq(d.buf, range.start + 1, range.end)

\* VecDeque::as_slices
as_slices(d) ==
    LET r == slice_ranges(d, d.len) IN <<buffer_range(d, r[1]), buffer_range(d, r[2])>>

\* slice::rotate_left and slice::rotate_right on the slots [start, end)
slice_rotate_left(d, start, end, mid) ==
    [d EXCEPT !.buf = SubSeq(@, 1, start) \o SubSeq(@, start + mid + 1, end)
                      \o SubSeq(@, start + 1, start + mid) \o SubSeq(@, end + 1, Len(@))]
slice_rotate_right(d, start, end, k) == slice_rotate_left(d, start, end, (end - start) - k)

\* Variant of make_contiguous that leaves the head where it was.
make_contiguous_keep_head(d) ==
    IF is_contiguous(d) THEN d
    ELSE LET head_len == capacity(d) - d.head
             tail_len == d.len - head_len IN
         copy_nonoverlapping(copy(d, 0, head_len, tail_len), d.head, 0, head_len)

\* VecDeque::make_contiguous
make_contiguous(d) ==
    IF is_contiguous(d) THEN d
    ELSE LET head == d.head
             len == d.len
             cap == capacity(d)
             free == cap - len
             head_len == cap - head
             tail == len - head_len
             tail_len == tail IN
         IF free >= head_len
         THEN [copy_nonoverlapping(copy(d, 0, head_len, tail_len), head, 0, head_len)
                 EXCEPT !.head = 0]
         ELSE IF free >= tail_len
         THEN [copy_nonoverlapping(copy(d, head, tail, head_len), 0, tail + head_len, tail_len)
                 EXCEPT !.head = tail]
         ELSE IF head_len > tail_len
         THEN LET moved == IF free # 0 THEN copy(d, 0, free, tail_len) ELSE d IN
              [slice_rotate_left(moved, free, cap, tail_len) EXCEPT !.head = free]
         ELSE LET moved == IF free # 0 THEN copy(d, head, tail_len, head_len) ELSE d IN
              [slice_rotate_right(moved, 0, len, head_len) EXCEPT !.head = 0]

\* Variant of rotate_left_inner that moves the head only.
rotate_left_inner_head(d, mid) == [d EXCEPT !.head = to_physical_idx(d, mid)]

\* VecDeque::rotate_left_inner
rotate_left_inner(d, mid) ==
    [wrap_copy(d, d.head, to_physical_idx(d, d.len), mid)
        EXCEPT !.head = to_physical_idx(d, mid)]

\* Variant of rotate_right_inner that copies before it moves the head.
rotate_right_inner_late(d, k) ==
    [wrap_copy(d, to_physical_idx(d, d.len), wrap_sub(d, d.head, k), k)
        EXCEPT !.head = wrap_sub(d, d.head, k)]

\* VecDeque::rotate_right_inner
rotate_right_inner(d, k) ==
    LET moved == [d EXCEPT !.head = wrap_sub(d, d.head, k)] IN
    wrap_copy(moved, to_physical_idx(moved, moved.len), moved.head, k)

\* VecDeque::rotate_left
rotate_left(d, mid) ==
    IF mid > d.len THEN [d EXCEPT !.panicked = TRUE]
    ELSE LET k == d.len - mid IN
         IF mid <= k THEN rotate_left_inner(d, mid) ELSE rotate_right_inner(d, k)

\* VecDeque::rotate_right
rotate_right(d, k) ==
    IF k > d.len THEN [d EXCEPT !.panicked = TRUE]
    ELSE LET mid == d.len - k IN
         IF k <= mid THEN rotate_right_inner(d, k) ELSE rotate_left_inner(d, mid)

\* The rune function VecDeque::rotate_left of the collections module:
\* [ok, d, err]
module_rotate_left(d, mid) ==
    IF mid > d.len THEN [ok |-> FALSE, d |-> d, err |-> OutOfRange(mid, d.len)]
    ELSE [ok |-> TRUE, d |-> rotate_left(d, mid), err |-> NoHalt]

\* The rune function VecDeque::rotate_right: [ok, d, err]
module_rotate_right(d, mid) ==
    IF mid > d.len THEN [ok |-> FALSE, d |-> d, err |-> OutOfRange(mid, d.len)]
    ELSE [ok |-> TRUE, d |-> rotate_right(d, mid), err |-> NoHalt]

\* VecDeque::get and VecDeque::get_mut: the slot of the element, if any
get(d, index) ==
    IF index < d.len THEN Some(to_physical_idx(d, index)) ELSE None

\* VecDeque::try_insert: [ok, d]
try_insert(d, index, value, new_capacity) ==
    IF index > d.len THEN [ok |-> FALSE, d |-> [d EXCEPT !.panicked = TRUE]]
    ELSE LET g == IF is_full(d) THEN try_grow(d, new_capacity) ELSE [ok |-> TRUE, d |-> d] IN
         IF ~g.ok THEN g
         ELSE LET k == g.d.len - index IN
              IF k < index
              THEN LET moved == wrap_copy(g.d, to_physical_idx(g.d, index),
                                          to_physical_idx(g.d, index + 1), k)
                   IN  [ok |-> TRUE,
                        d |-> [buffer_write(moved, to_physical_idx(moved, index), value)
                                  EXCEPT !.len = @ + 1]]
              ELSE LET old_head == g.d.head
                       headed == [g.d EXCEPT !.head = wrap_sub(g.d, g.d.head, 1)]
                       moved == wrap_copy(headed, old_head, headed.head, index)
                   IN  [ok |-> TRUE,
                        d |-> [buffer_write(moved, to_physical_idx(moved, index), value)
                                  EXCEPT !.len = @ + 1]]

module_insert_unguarded(d, index, value, new_capacity) ==
    LET r == try_insert(d, index, value, new_capacity) IN
    [ok |-> r.ok, d |-> r.d, err |-> IF r.ok THEN NoHalt ELSE VmErr("AllocError")]

\* The rune function VecDeque::insert: [ok, d, err]
module_insert(d, index, value, new_capacity) ==
    IF index > d.len THEN [ok |-> FALSE, d |-> d, err |-> OutOfRange(index, d.len)]
    ELSE LET r == try_insert(d, index, value, new_capacity) IN
         [ok |-> r.ok, d |-> r.d, err |-> IF r.ok THEN NoHalt ELSE VmErr("AllocError")]

\* The rune function VecDeque::get: [ok, d, err, ret]
module_get(d, index) ==
    LET v == get(d, index) IN
    IF ~v.some THEN [ok |-> FALSE, d |-> d, err |-> OutOfRange(index, d.len), ret |-> EmptyV]
    ELSE [ok |-> TRUE, d |-> d, err |-> NoHalt, ret |-> buffer_read(d, v.value)]

\* The rune function VecDeque::set: [ok, d, err]
module_set(d, index, value) ==
    LET v == get(d, index) IN
    IF ~v.some THEN [ok |-> FALSE, d |-> d, err |-> OutOfRange(index, d.len)]
    ELSE [ok |-> TRUE, d |-> buffer_write(d, v.value, value), err |-> NoHalt]

\* The elements front to back, as VecDeque::get(i) reads them.
Contents(d) == [i \in 1..d.len |-> buffer_read(d, to_physical_idx(d, i - 1))]

\* VecDeque::truncate
truncate(d, len) == IF len >= d.len THEN d ELSE [d EXCEPT !.len = len]

RECURSIVE push_each(_, _, _)
\* try_push_back(value)? for each value in turn: [ok, d].  allocs are the
\* capacities the allocator gives to the calls of try_grow in turn, an
\* exhausted allocs being a failed allocation.
push_each(d, values, allocs) ==
    IF values = <<>> THEN [ok |-> TRUE, d |-> d]
    ELSE LET grows == is_full(d)
             pushed == try_push_back(d, Head(values),
                                     IF grows /\ allocs # <<>> THEN Head(allocs) ELSE 0)
         IN  IF ~pushed.ok THEN pushed
             ELSE push_each(pushed.d, Tail(values),
                            IF grows /\ allocs # <<>> THEN Tail(allocs) ELSE allocs)

\* VecDeque::try_resize: [ok, d].  clones is the number of calls of
\* value.try_clone() that succeed.
try_resize(d, new_len, value, clones, allocs) ==
    IF new_len > d.len
    THEN LET extra == new_len - d.len
             cloned == IF clones < extra THEN clones ELSE extra
             pushed == push_each(d, [i \in 1..cloned |-> value], allocs)
         IN  IF pushed.ok /\ clones < extra THEN [ok |-> FALSE, d |-> pushed.d] ELSE pushed
    ELSE [ok |-> TRUE, d |-> truncate(d, new_len)]

\* VecDeque::try_resize_with: [ok, d].  generated are the values of the
\* calls of generator() in turn.
try_resize_with(d, new_len, generated, allocs) ==
    IF new_len > d.len
    THEN push_each(d, SubSeq(generated, 1, new_len - d.len), allocs)
    ELSE [ok |-> TRUE, d |-> truncate(d, new_len)]

\* The rune function VecDeque::extend: [ok, d].  items are the values
\* it.next()? yields, after which it ends, or fails when failing.
module_extend(d, items, failing, allocs) ==
    LET pushed == push_each(d, items, allocs) IN
    IF pushed.ok /\ failing THEN [ok |-> FALSE, d |-> pushed.d] ELSE pushed

\* Ord::cmp of two elements
Ord_cmp(a, b) ==
    IF a.v < b.v THEN "Less" ELSE IF a.v > b.v THEN "Greater" ELSE "Equal"

\* Result<usize, usize> of a search: Ok(index) and Err(index)
Found(index) == [ok |-> TRUE, index |-> index]
NotFound(index) == [ok |-> FALSE, index |-> index]

\* <[T]>::binary_search_by(|e| e.cmp(x)) on a sorted slice: the results its
\* contract allows, the index of any match, or else the insertion point.
slice_binary_search_by(slice, x) ==
    LET matches == {i \in 0..(Len(slice) - 1) : Ord_cmp(slice[i + 1], x) = "Equal"} IN
    IF matches # {} THEN {Found(i) : i \in matches}
    ELSE {NotFound(Cardinality({i \in 1..Len(slice) : Ord_cmp(slice[i], x) = "Less"}))}

binary_search_by_front(d, x) ==
    LET front == as_slices(d)[1]
        back == as_slices(d)[2]
    IN  IF back # <<>> /\ Ord_cmp(back[1], x) = "Equal" THEN {Found(Len(front))}
        ELSE IF back # <<>> /\ Ord_cmp(back[1], x) = "Less"
        THEN slice_binary_search_by(back, x)
        ELSE slice_binary_search_by(front, x)

\* VecDeque::binary_search_by(|e| e.cmp(x)): the set of results it may give
binary_search_by(d, x) ==
    LET front == as_slices(d)[1]
        back == as_slices(d)[2]
    IN  IF back # <<>> /\ Ord_cmp(back[1], x) = "Equal" THEN {Found(Len(front))}
        ELSE IF back # <<>> /\ Ord_cmp(back[1], x) = "Less"
        THEN {[r EXCEPT !.index = @ + Len(front)] : r \in slice_binary_search_by(back, x)}
        ELSE slice_binary_search_by(front, x)

\* VecDeque::binary_search
binary_search(d, x) == binary_search_by(d, x)

\* ------------------------------------------------------------------------
\* RangeTo (runtime/range_to.rs)

\* The f64 NaN among the payloads of the floats
NaN == IntMax + 1
FloatV(n) == Val("Float", n)

\* Result<Option<Ordering>, VmError> and Result<bool, VmError>
Compared(ordering) == [ok |-> TRUE, ordering |-> ordering, err |-> NoHalt]
Answered(bool) == [ok |-> TRUE, bool |-> bool, err |-> NoHalt]

\* Value::partial_cmp_with: integers and floats are ordered among
\* themselves, a NaN has no ordering, any other pair is unsupported.
partial_cmp_with(a, b) ==
    IF a.t = b.t /\ a.t \in {"Int", "Float"}
    THEN IF a.t = "Float" /\ (a.v = NaN \/ b.v = NaN) THEN Compared("None")
         ELSE Compared(Ord_cmp(a, b))
    ELSE [ok |-> FALSE, ordering |-> "None",
          err |-> UnsupportedBinaryOperation("partial_cmp", type_info(a), type_info(b))]

\* RangeTo::new
RangeTo(end) == [end |-> end]

contains_with_reversed(self, value) ==
    LET compared == partial_cmp_with(value, self.end) IN
    IF ~compared.ok THEN [ok |-> FALSE, bool |-> FALSE, err |-> compared.err]
    ELSE Answered(compared.ordering = "Greater")

\* RangeTo::contains_with
contains_with(self, value) ==
    LET compared == partial_cmp_with(self.end, value) IN
    IF ~compared.ok THEN [ok |-> FALSE, bool |-> FALSE, err |-> compared.err]
    ELSE Answered(compared.ordering = "Greater")

\* RangeTo::contains
contains(self, value) == contains_with(self, value)

\* ------------------------------------------------------------------------
\* Lexer (crates/rune/src/parse/lexer.rs)
\*
\* A source is a sequence of one-character strings.  The characters of the
\* model stand for the classes the lexer distinguishes.

\* Option<char>::None of SourceIter::peek and SourceIter::next
NoChar == ""

\* the character that delimits a template string (a string of this
\* language cannot hold it)
Backtick == "backtick"

\* '0'..='9' | 'a'..='z', the components of labels
LabelChars == {"a"}

\* unicode_ident::is_xid_continue
is_xid_continue(c) == c \in {"a", "A"}

\* unicode_ident::is_xid_start
is_xid_start(c) == c \in {"a", "A"}

\* char::is_whitespace
is_whitespace(c) == c = "\n"

\* char::is_control
is_control(c) == c = "\n"

\* ast::Token: its kind and its span; `escaped` is the flag of a Str token
Tok(kind, start, end, escaped) ==
    [tag |-> "Some", kind |-> kind, start |-> start, end |-> end,
     escaped |-> escaped]

Token(kind, start, end) == Tok(kind, start, end, FALSE)

\* Ok(None): the end of the token stream
Eof == [tag |-> "None", kind |-> "", start |-> 0, end |-> 0, escaped |-> FALSE]

\* Err(compile::Error::new(span, kind))
LexErr(kind, start, end) ==
    [tag |-> "Err", kind |-> kind, start |-> start, end |-> end,
     escaped |-> FALSE]

\* Ok(()) of a helper, and the result field before the first call
LexOk == [tag |-> "Ok", kind |-> "", start |-> 0, end |-> 0, escaped |-> FALSE]

Failed(l) == l.result.tag = "Err"

\* LexerMode::Default(level) and LexerMode::Template(expressions)
Default(level) == [mode |-> "Default", n |-> level]

Template(expressions) == [mode |-> "Template", n |-> expressions]

\* Lexer::new; `drained` records that the call which produced `result`
\* began with the source and the buffer exhausted
Lexer_new(source) ==
    [source |-> source, cursor |-> 0, modes |-> <<>>, buffer |-> <<>>,
     process |-> TRUE, result |-> LexOk, drained |-> FALSE]

\* Lexer::without_processing
without_processing(l) == [l EXCEPT !.process = FALSE]

\* SourceIter::peek
peek(l) == IF l.cursor < Len(l.source) THEN l.source[l.cursor + 1] ELSE NoChar

\* SourceIter::next
iter_next(l) ==
    IF l.cursor < Len(l.source) THEN [l EXCEPT !.cursor = @ + 1] ELSE l

\* LexerModes::last
modes_last(l) == IF l.modes = <<>> THEN Default(0) ELSE l.modes[Len(l.modes)]

\* LexerModes::push
modes_push(l, mode) == [l EXCEPT !.modes = Append(@, mode)]

\* LexerModes::pop
modes_pop(l, expected) ==
    LET actual == modes_last(l)
        popped == IF l.modes = <<>> THEN <<>>
                  ELSE SubSeq(l.modes, 1, Len(l.modes) - 1)
    IN [l EXCEPT !.modes = popped,
                 !.result = IF actual # expected
                            THEN LexErr("BadLexerMode", l.cursor, l.cursor)
                            ELSE LexOk]

\* LexerModes::expression_count succeeds: the last mode is a template
IsTemplate(l) == l.modes # <<>> /\ l.modes[Len(l.modes)].mode = "Template"

\* the count that LexerModes::expression_count refers to
expression_count(l) == l.modes[Len(l.modes)].n

\* an assignment through the reference of LexerModes::expression_count
set_expression_count(l, n) ==
    [l EXCEPT !.modes[Len(l.modes)] = Template(n)]

\* A variant of StringPart that puts no comma before the string.
StringPart_bare(had_string, expressions, start, end, escaped) ==
    IF ~had_string THEN <<>> ELSE <<Tok("Str", start, end, escaped)>>

\* the string part that Lexer::template_next emits before `${` or '`'
StringPart(had_string, expressions, start, end, escaped) ==
    IF ~had_string THEN <<>>
    ELSE (IF expressions > 0 THEN <<Token("Comma", start, end)>> ELSE <<>>)
         \o <<Tok("Str", start, end, escaped)>>

\* Lexer::template_next, the loop from the character at the cursor
RECURSIVE template_scan(_, _, _)
template_scan(l, start, escaped) ==
    LET c == peek(l)
        pos == l.cursor
        had_string == start # pos
        l1 == iter_next(l)
    IN
    IF c = NoChar THEN [l EXCEPT !.result = LexErr("UnexpectedEof", pos, pos)]
    ELSE IF c = "$" THEN
        IF ~IsTemplate(l)
        THEN [l EXCEPT !.result = LexErr("BadLexerMode", start, pos)]
        ELSE
            LET c2 == peek(l1)
                l2 == iter_next(l1)
                e0 == expression_count(l)
                e1 == IF had_string THEN e0 + 1 ELSE e0
                comma == IF e1 > 0 THEN <<Token("Comma", pos, l2.cursor)>>
                         ELSE <<>>
                l3 == [set_expression_count(l2, e1) EXCEPT
                          !.buffer = @ \o StringPart(had_string, e0, start,
                                                     pos, escaped) \o comma,
                          !.result = LexOk]
            IN
            IF c2 = NoChar
            THEN [l1 EXCEPT
                     !.result = LexErr("UnexpectedEof", pos, Len(l.source))]
            ELSE IF c2 # "{"
            THEN [l2 EXCEPT
                     !.result = LexErr("UnexpectedChar", l1.cursor, l2.cursor)]
            ELSE modes_push(l3, Default(1))
    ELSE IF c = "\\" THEN
        IF peek(l1) = NoChar
        THEN [l1 EXCEPT !.result = LexErr("ExpectedEscape", pos, l1.cursor)]
        ELSE template_scan(iter_next(l1), start, TRUE)
    ELSE IF c = Backtick THEN
        IF ~IsTemplate(l1)
        THEN [l1 EXCEPT !.result = LexErr("BadLexerMode", pos, l1.cursor)]
        ELSE
            LET e0 == expression_count(l1)
                e1 == IF had_string THEN e0 + 1 ELSE e0
                closing == <<Token("Close(Parenthesis)", pos, l1.cursor),
                             Token("Close(Empty)", pos, l1.cursor)>>
                l2 == [set_expression_count(l1, e1) EXCEPT
                          !.buffer = @ \o StringPart(had_string, e0, start,
                                                     pos, escaped) \o closing]
            IN modes_pop(l2, Template(e1))
    ELSE template_scan(l1, start, escaped)

\* Lexer::template_next
template_next(l) == template_scan(l, l.cursor, FALSE)

\* Lexer::next_char_or_label after its loop
char_or_label(l, start, is_label, count) ==
    IF count = 0
    THEN [l EXCEPT !.result =
             LexErr(IF ~is_label THEN "ExpectedCharClose"
                    ELSE "ExpectedCharOrLabel", start, Len(l.source))]
    ELSE [l EXCEPT !.result =
             Token(IF is_label THEN "Label" ELSE "Char", start, l.cursor)]

\* Lexer::next_char_or_label, the loop from the character at the cursor
RECURSIVE char_or_label_scan(_, _, _, _)
char_or_label_scan(l, start, is_label, count) ==
    LET c == peek(l)
        l1 == iter_next(l)
    IN
    IF c = NoChar THEN char_or_label(l, start, is_label, count)
    ELSE IF c = "\\" THEN
        IF peek(l1) = NoChar
        THEN [l1 EXCEPT
                 !.result = LexErr("ExpectedEscape", l.cursor, l1.cursor)]
        ELSE char_or_label_scan(iter_next(l1), start, FALSE, count + 1)
    ELSE IF c = "'" THEN char_or_label(l1, start, FALSE, count)
    ELSE IF c \in LabelChars
    THEN char_or_label_scan(l1, start, is_label, count + 1)
    ELSE IF is_control(c)
    THEN [l EXCEPT !.result = LexErr("UnterminatedCharLit", start, l.cursor)]
    ELSE IF is_label /\ count > 0
    THEN char_or_label(l, start, is_label, count)
    ELSE char_or_label_scan(l1, start, FALSE, count + 1)

\* Lexer::next_char_or_label
next_char_or_label(l, start) == char_or_label_scan(l, start, TRUE, 0)

\* Lexer::next_ident
RECURSIVE next_ident(_, _)
next_ident(l, start) ==
    IF peek(l) # NoChar /\ is_xid_continue(peek(l))
    THEN next_ident(iter_next(l), start)
    ELSE [l EXCEPT !.result = Token("Ident", start, l.cursor)]

\* Lexer::consume_whitespace
RECURSIVE consume_whitespace(_)
consume_whitespace(l) ==
    IF peek(l) # NoChar /\ is_whitespace(peek(l))
    THEN consume_whitespace(iter_next(l))
    ELSE l

\* the tokens that open the expansion of a template string:
\* Open(Empty), Lexer::emit_builtin_attribute, `template`, `!`, `(`
TemplateOpening(start, end) ==
    <<Token("Open(Empty)", start, end),
      Token("Pound", start, end),
      Token("Open(Bracket)", start, end),
      Token("Ident(BuiltIn)", start, end),
      Token("Open(Parenthesis)", start, end),
      Token("Ident(Literal)", start, end),
      Token("Close(Parenthesis)", start, end),
      Token("Close(Bracket)", start, end),
      Token("Ident(Template)", start, end),
      Token("Bang", start, end),
      Token("Open(Parenthesis)", start, end)>>

\* Lexer::next.  The characters of the model begin no shebang, comment,
\* number or string, and no operator of two characters but `+=`.
\* raw_template is the loop over a template string that is not expanded;
\* its u32 level is kept as the representative of least absolute value of
\* its residue (the loop only compares it with zero).
RECURSIVE Lexer_next(_)
RECURSIVE raw_template(_, _)
Lexer_next(l) ==
    LET mode == modes_last(l)
        level == mode.n
        c == peek(l)
        start == l.cursor
        l1 == iter_next(l)
    IN
    IF l.buffer # <<>>
    THEN [l EXCEPT !.buffer = Tail(@), !.result = Head(l.buffer)]
    ELSE IF mode.mode = "Template" THEN
        LET t == template_next(l) IN
        IF Failed(t) THEN t ELSE Lexer_next(t)
    ELSE IF c = NoChar THEN
        LET p == modes_pop(l, Default(0)) IN
        IF Failed(p) THEN p ELSE [p EXCEPT !.result = Eof]
    ELSE IF is_whitespace(c) THEN
        LET w == consume_whitespace(l1) IN
        [w EXCEPT !.result = Token("Whitespace", start, w.cursor)]
    ELSE IF c = "+" /\ peek(l1) = "=" THEN
        [iter_next(l1) EXCEPT !.result = Token("PlusEq", start, start + 2)]
    ELSE IF c = "{" THEN
        [(IF level > 0 THEN modes_push(l1, Default(level + 1)) ELSE l1)
            EXCEPT !.result = Token("Open(Brace)", start, l1.cursor)]
    ELSE IF c = "}" THEN
        LET p == IF level > 0 THEN modes_pop(l1, Default(level)) ELSE l1 IN
        IF level > 0 /\ Failed(p) THEN p
        ELSE IF level = 1 THEN
            IF ~IsTemplate(p)
            THEN [p EXCEPT !.result = LexErr("BadLexerMode", start, p.cursor)]
            ELSE Lexer_next(set_expression_count(p, expression_count(p) + 1))
        ELSE [p EXCEPT !.result = Token("Close(Brace)", start, l1.cursor)]
    ELSE IF c = "+" THEN [l1 EXCEPT !.result = Token("Plus", start, l1.cursor)]
    ELSE IF c = "$"
    THEN [l1 EXCEPT !.result = Token("Dollar", start, l1.cursor)]
    ELSE IF is_xid_start(c) THEN next_ident(l1, start)
    ELSE IF c = Backtick THEN
        IF l.process
        THEN Lexer_next(modes_push(
                 [l1 EXCEPT !.buffer = @ \o TemplateOpening(start, l1.cursor)],
                 Template(0)))
        ELSE LET r == raw_template(l1, 0) IN
             [r EXCEPT !.result = Token("TemplateString", start, r.cursor)]
    ELSE IF c = "'" THEN next_char_or_label(l1, start)
    ELSE [l1 EXCEPT !.result = LexErr("UnexpectedChar", start, l1.cursor)]

raw_template(l, level) ==
    LET c == peek(l)
        l1 == iter_next(l)
    IN
    IF c = NoChar THEN l
    ELSE IF c = "{" THEN raw_template(l1, level + 1)
    ELSE IF c = "}" THEN raw_template(l1, level - 1)
    ELSE IF c = "\\" THEN raw_template(Lexer_next(l1), level)
    ELSE IF c = Backtick /\ level = 0 THEN l1
    ELSE raw_template(l1, level)

\* ------------------------------------------------------------------------
\* Query::import (crates/rune/src/query/query.rs)
\*
\* An item is a sequence of components.  The query holds the entries that
\* indexing has left for items (`indexed`), the aliases of the context
\* (`context`) and the meta it has resolved (`meta`); each maps an item to
\* an entry.  The modules of the items only feed check_access_to, whose
\* verdict is an input of the step.

IMPORT_RECURSION_LIMIT == 128

NoEntry == [kind |-> "None", target |-> <<>>]

\* Indexed::Import, or meta::Kind::Import once resolved
ImportEntry(target) == [kind |-> "Import", target |-> target]

\* meta::Kind::Alias of the context
AliasEntry(target) == [kind |-> "Alias", target |-> target]

\* any other indexed item, or its meta once built
OtherEntry == [kind |-> "Other", target |-> <<>>]

Lookup(map, item) == IF item \in DOMAIN map THEN map[item] ELSE NoEntry

Without(map, item) ==
    [i \in DOMAIN map |-> IF i = item THEN NoEntry ELSE map[i]]

Insert(map, item, entry) ==
    [i \in DOMAIN map \cup {item} |-> IF i = item THEN entry ELSE map[i]]

\* Option<FoundImportStep> or the error of Query::import_step
FoundImportStep(q, target) ==
    [q |-> q, found |-> TRUE, target |-> target, err |-> ""]

NoImportStep(q) == [q |-> q, found |-> FALSE, target |-> <<>>, err |-> ""]

FailedImportStep(q, err) ==
    [q |-> q, found |-> FALSE, target |-> <<>>, err |-> err]

\* Query::import_step; `access` is the verdict of check_access_to
import_step(q, item, access) ==
    LET meta == Lookup(q.meta, item)
        alias == Lookup(q.context, item)
        entry == Lookup(q.indexed, item)
        removed == [q EXCEPT !.indexed = Without(@, item)]
    IN
    IF meta.kind # "None" THEN
        IF meta.kind = "Import" THEN FoundImportStep(q, meta.target)
        ELSE NoImportStep(q)
    ELSE IF alias.kind = "Alias" THEN
        FoundImportStep(
            [q EXCEPT !.meta = Insert(@, item, ImportEntry(alias.target))],
            alias.target)
    ELSE IF entry.kind = "None" THEN NoImportStep(q)
    ELSE IF ~access THEN FailedImportStep(removed, "NotVisible")
    ELSE IF entry.kind = "Import" THEN
        FoundImportStep([removed EXCEPT !.meta = Insert(@, item, entry)],
                        entry.target)
    ELSE NoImportStep([removed EXCEPT !.meta = Insert(@, item, OtherEntry)])

\* a mutant of Visit: the item is not looked up among the visited ones
VisitUnchecked(q, k, target) ==
    [q EXCEPT !.path = Append(@, target),
              !.visited = @ \cup {q.item},
              !.item = target \o SubSeq(q.item, k + 1, Len(q.item)),
              !.any_matched = TRUE]

\* Query::import after an import was found at the k-th component of the
\* item: the step joins the path, the item joins the visited ones, and the
\* target of the import replaces the components walked so far
Visit(q, k, target) ==
    IF q.item \in q.visited
    THEN [q EXCEPT !.path = Append(@, target), !.result = "ImportCycle"]
    ELSE [q EXCEPT !.path = Append(@, target),
                   !.visited = @ \cup {q.item},
                   !.item = target \o SubSeq(q.item, k + 1, Len(q.item)),
                   !.any_matched = TRUE]

\* Query::import, the walk over the components of the item from the k-th
RECURSIVE Walk(_, _, _)
Walk(q, k, access) ==
    LET step == import_step(q, SubSeq(q.item, 1, k), access) IN
    IF k > Len(q.item)
    THEN [q EXCEPT !.result = IF q.any_matched THEN "Some" ELSE "None"]
    ELSE IF step.err # "" THEN [step.q EXCEPT !.result = step.err]
    ELSE IF ~step.found THEN Walk(step.q, k + 1, access)
    ELSE Visit(step.q, k, step.target)

\* Query::import, one round of its outer loop
import_round(q, access) ==
    IF q.count > IMPORT_RECURSION_LIMIT
    THEN [q EXCEPT !.result = "ImportRecursionLimit"]
    ELSE Walk([q EXCEPT !.count = @ + 1], 1, access)

\* Query::import before its loop, over the entries of a compilation
Query_import(indexed, context, item) ==
    [indexed |-> indexed, context |-> context,
     meta |-> [i \in {} |-> NoEntry],
     item |-> item, visited |-> {}, path |-> <<>>, any_matched |-> FALSE,
     count |-> 0, result |-> "", held |-> {}]

\* ------------------------------------------------------------------------
\* Query::remove_indexed (crates/rune/src/query/query.rs)
\*
\* The entries indexed for an item, in the order of their indexing; an
\* entry is an import, of a wildcard or not, or another kind of item, and
\* `location` tells the entries of an item apart.

IndexedImport(wildcard, location) ==
    [import |-> TRUE, wildcard |-> wildcard, location |-> location]
IndexedItem(location) ==
    [import |-> FALSE, wildcard |-> FALSE, location |-> location]

\* Ok(None), Ok(Some(entry)) and Err(AmbiguousItem { item, locations })
NoIndexed == [tag |-> "None", entry |-> IndexedItem(0), locations |-> <<>>]
SomeIndexed(entry) == [tag |-> "Some", entry |-> entry, locations |-> <<>>]
AmbiguousItem(locations) ==
    [tag |-> "AmbiguousItem", entry |-> IndexedItem(0), locations |-> locations]

Locations(entries) == [i \in DOMAIN entries |-> entries[i].location]

\* A variant of Preferred that keeps the first of two imports.
Preferred_first(cur, oth) ==
    IF cur.import /\ oth.import THEN "cur" ELSE "ambiguous"

\* The body of the loop of remove_indexed: which of cur and oth goes on, if
\* the two are not ambiguous.
Preferred(cur, oth) ==
    IF cur.import /\ oth.import
    THEN IF cur.wildcard THEN "oth"
         ELSE IF oth.wildcard THEN "cur"
         ELSE "ambiguous"
    ELSE "ambiguous"

RECURSIVE remove_indexed_loop(_, _, _)
\* The loop of remove_indexed over the entries after the first
remove_indexed_loop(cur, it, all) ==
    IF it = <<>>
    THEN IF cur.import /\ cur.wildcard THEN AmbiguousItem(Locations(all))
         ELSE SomeIndexed(cur)
    ELSE LET oth == Head(it)
             p == Preferred(cur, oth) IN
         IF p = "ambiguous" THEN AmbiguousItem(Locations(all))
         ELSE remove_indexed_loop(IF p = "oth" THEN oth ELSE cur, Tail(it), all)

\* Query::remove_indexed: [indexed, result]
remove_indexed(indexed, item) ==
    IF item \notin DOMAIN indexed THEN [indexed |-> indexed, result |-> NoIndexed]
    ELSE LET entries == indexed[item]
             removed == [i \in DOMAIN indexed \ {item} |-> indexed[i]] IN
         [indexed |-> removed,
          result |-> IF entries = <<>> THEN NoIndexed
                     ELSE IF Len(entries) = 1 THEN SomeIndexed(entries[1])
                     ELSE remove_indexed_loop(entries[1], Tail(entries), entries)]

\* ------------------------------------------------------------------------
\* Tuple index get and set.  Ok(v), Err(v) and Some(v) hold the integer v.

MissingIndexInteger(target, index) ==
    [VmErr("MissingIndexInteger") EXCEPT !.operand = target, !.index = index]
UnsupportedTupleIndexSet(target) ==
    [VmErr("UnsupportedTupleIndexSet") EXCEPT !.operand = target]
UnsupportedTupleIndexGet(target, index) ==
    [VmErr("UnsupportedTupleIndexGet") EXCEPT !.operand = target, !.index = index]

\* Ok(Some(value)), Ok(None) and Err(MissingIndexInteger { target, index })
IndexSome(value) == [k |-> "Some", value |-> value, err |-> NoHalt]
IndexNone == [k |-> "None", value |-> EmptyV, err |-> NoHalt]
IndexErr(target, index) ==
    [k |-> "Err", value |-> EmptyV, err |-> MissingIndexInteger(type_info(target), index)]

\* Vm::try_tuple_like_index_get
try_tuple_like_index_get(heap, target, index) ==
    IF IsInline(target)
    THEN IF target.t = "Unit" THEN IndexErr(target, index) ELSE IndexNone
    ELSE IF target.t \in DOMAIN UnitTupleStructs
    THEN IF index < Len(heap[target.v].data)
         THEN IndexSome(heap[target.v].data[index + 1])
         ELSE IndexErr(target, index)
    ELSE IF target.t \in {"Ok", "Err"}
    THEN IF index = 0 THEN IndexSome(IntV(target.v)) ELSE IndexErr(target, index)
    ELSE IF target.t \in {"Some", "None"}
    THEN IF index = 0 /\ target.t = "Some" THEN IndexSome(IntV(target.v))
         ELSE IndexErr(target, index)
    ELSE IndexNone

\* Vm::try_tuple_like_index_set: [ok, target, heap], target being the value
\* of the target after target.clone_from(from).
try_tuple_like_index_set(heap, target, index, from) ==
    IF IsInline(target) THEN [ok |-> FALSE, target |-> target, heap |-> heap]
    ELSE IF target.t \in DOMAIN UnitTupleStructs
    THEN IF index < Len(heap[target.v].data)
         THEN [ok |-> TRUE, target |-> target,
               heap |-> [heap EXCEPT ![target.v].data[index + 1] = from]]
         ELSE [ok |-> FALSE, target |-> target, heap |-> heap]
    ELSE IF \/ target.t = "Ok" /\ index = 0
            \/ target.t = "Err" /\ index = 1
            \/ target.t = "Some" /\ index = 0
    THEN [ok |-> TRUE, target |-> Val(target.t, from.v), heap |-> heap]
    ELSE [ok |-> FALSE, target |-> target, heap |-> heap]

\* Vm::op_tuple_index_set
op_tuple_index_set(vm, heap, target, index, value) ==
    The({IF r.ok THEN Res(StackStore(vm, target, r.target), r.heap, NoHalt)
         ELSE Res(vm, heap, UnsupportedTupleIndexSet(type_info(StackAt(vm, target)))) :
         r \in {try_tuple_like_index_set(heap, StackAt(vm, target), index,
                                          StackAt(vm, value))}})

\* Hash::index_function(protocol, type_hash, Hash::index(index))
index_function(protocol, hash, index) == hash \o "::" \o protocol \o "::" \o ToString(index)

\* Vm::call_index_fn without arguments
call_index_fn(vm, heap, protocol, target, index, out) ==
    call_hash_with(vm, heap, FALSE, index_function(protocol, type_hash(target), index),
                   target, <<>>, 1, out)

\* Vm::op_tuple_index_get_at
op_tuple_index_get_at(vm, heap, addr, index, out) ==
    The({IF g.k = "Some" THEN StoreRes(vm, heap, out, g.value)
         ELSE IF g.k = "Err" THEN Res(vm, heap, g.err)
         ELSE The({IF c.result = "Unsupported"
                   THEN Res(vm, heap,
                            UnsupportedTupleIndexGet(type_info(StackAt(vm, addr)), index))
                   ELSE c.res :
                   c \in {call_index_fn(vm, heap, "GET", StackAt(vm, addr), index, out)}}) :
         g \in {try_tuple_like_index_get(heap, StackAt(vm, addr), index)}})

\* ------------------------------------------------------------------------
\* The slab Vm (src/vm.rs)
\*
\* A slab keeps its entries under the keys 0..Len(entries)-1 and hands out
\* the key vacated last, or the next new key.

Slab(vacant) == [entries |-> <<>>, free |-> <<>>, vacant |-> vacant]

slab_contains(slab, key) ==
    key < Len(slab.entries) /\ slab.entries[key + 1] # slab.vacant

slab_get(slab, key) == slab.entries[key + 1]

\* the key that the next Slab::insert returns
slab_key(slab) ==
    IF slab.free = <<>> THEN Len(slab.entries) ELSE Head(slab.free)

slab_insert(slab, entry) ==
    IF slab.free = <<>> THEN [slab EXCEPT !.entries = Append(@, entry)]
    ELSE [slab EXCEPT !.entries[Head(slab.free) + 1] = entry,
                      !.free = Tail(@)]

slab_remove(slab, key) ==
    [slab EXCEPT !.entries[key + 1] = slab.vacant, !.free = <<key>> \o @]

\* Value: Unit, Bool, Integer and Float carry their data, String, Array and
\* External the slot of their payload
SlabValue(kind, data) == [kind |-> kind, data |-> data]

\* ValueHolder
ValueHolder(count, value) ==
    [count |-> count, kind |-> value.kind, data |-> value.data]

VacantHolder == [count |-> 0, kind |-> "Vacant", data |-> 0]

VacantArray == [vacant |-> TRUE, array |-> <<>>]

\* Vm::new
SlabVm_new ==
    [stack |-> <<>>, frames |-> <<>>, gc_freed |-> <<>>,
     values |-> Slab(VacantHolder), externals |-> Slab("Vacant"),
     strings |-> Slab("Vacant"), arrays |-> Slab(VacantArray),
     exited |-> FALSE, err |-> ""]

\* Vm::free
Vm_free(v, value_slot) ==
    LET holder == slab_get(v.values, value_slot)
        count == IF holder.count > 0 THEN holder.count - 1 ELSE 0
    IN
    IF ~slab_contains(v.values, value_slot) THEN v
    ELSE [v EXCEPT !.values.entries[value_slot + 1].count = count,
                   !.gc_freed = IF count = 0 THEN Append(@, value_slot) ELSE @]

\* the Option<Value> of Vm::free and Vm::managed_pop
Freed(v, value_slot) ==
    IF slab_contains(v.values, value_slot)
    THEN [some |-> TRUE,
          value |-> SlabValue(slab_get(v.values, value_slot).kind,
                              slab_get(v.values, value_slot).data)]
    ELSE [some |-> FALSE, value |-> SlabValue("Unit", 0)]

\* Vm::managed_pop
managed_pop(v) ==
    LET value_slot == v.stack[Len(v.stack)]
        popped == [v EXCEPT !.stack = SubSeq(@, 1, Len(@) - 1)]
    IN
    IF v.stack = <<>>
    THEN [vm |-> v, some |-> FALSE, value |-> SlabValue("Unit", 0)]
    ELSE [vm |-> Vm_free(popped, value_slot),
          some |-> Freed(popped, value_slot).some,
          value |-> Freed(popped, value_slot).value]

\* Vm::allocate_value
allocate_value(v, value) ==
    [v EXCEPT !.values = slab_insert(@, ValueHolder(1, value))]

\* Vm::managed_push
managed_push(v, value) ==
    [allocate_value(v, value) EXCEPT !.stack = Append(@, slab_key(v.values))]

\* Vm::gc, the release of the slots of an array
RECURSIVE free_all(_, _)
free_all(v, array) ==
    IF array = <<>> THEN v ELSE free_all(Vm_free(v, Head(array)), Tail(array))

\* Vm::gc, the removal of one slot of the work list
collect(v, slot) ==
    LET holder == slab_get(v.values, slot)
        removed == [v EXCEPT !.values = slab_remove(@, slot)]
    IN
    IF ~slab_contains(v.values, slot) THEN v
    ELSE IF holder.kind = "External" THEN
        IF ~slab_contains(removed.externals, holder.data) THEN removed
        ELSE [removed EXCEPT !.externals = slab_remove(@, holder.data)]
    ELSE IF holder.kind = "String" THEN
        IF ~slab_contains(removed.strings, holder.data) THEN removed
        ELSE [removed EXCEPT !.strings = slab_remove(@, holder.data)]
    ELSE IF holder.kind = "Array" THEN
        IF ~slab_contains(removed.arrays, holder.data) THEN removed
        ELSE free_all([removed EXCEPT !.arrays = slab_remove(@, holder.data)],
                      slab_get(removed.arrays, holder.data).array)
    ELSE removed

\* Vm::gc, the work list
RECURSIVE drain(_, _)
drain(v, gc_work) ==
    IF gc_work = <<>> THEN v
    ELSE drain(collect(v, Head(gc_work)), Tail(gc_work))

\* Vm::gc
RECURSIVE gc(_)
gc(v) ==
    IF v.gc_freed = <<>> THEN v
    ELSE gc(drain([v EXCEPT !.gc_freed = <<>>], v.gc_freed))

Raise(v, err) == [v EXCEPT !.err = err]

\* a mutant of stack_copy_exact: the reference is pushed uncounted
stack_copy_exact_uncounted(v, offset) ==
    LET value_slot == v.stack[offset + 1] IN
    IF offset >= Len(v.stack) THEN Raise(v, "StackOutOfBounds")
    ELSE IF ~slab_contains(v.values, value_slot) THEN Raise(v, "SlotMissing")
    ELSE [v EXCEPT !.stack = Append(@, value_slot)]

\* Vm::stack_copy_exact; stack offsets count from 0
stack_copy_exact(v, offset) ==
    LET value_slot == v.stack[offset + 1] IN
    IF offset >= Len(v.stack) THEN Raise(v, "StackOutOfBounds")
    ELSE IF ~slab_contains(v.values, value_slot) THEN Raise(v, "SlotMissing")
    ELSE [v EXCEPT !.values.entries[value_slot + 1].count = @ + 1,
                   !.stack = Append(@, value_slot)]

\* Vm::stack_copy_frame
stack_copy_frame(v, rel) ==
    stack_copy_exact(v, IF v.frames # <<>>
                        THEN v.frames[Len(v.frames)].offset + rel ELSE rel)

\* Vm::push_frame
push_frame(v, ip, args) ==
    IF Len(v.stack) < args THEN Raise(v, "StackOutOfBounds")
    ELSE [v EXCEPT !.frames =
             Append(@, [ip |-> ip, offset |-> Len(v.stack) - args])]

\* Vm::pop_frame, the release of the values of the frame
RECURSIVE pop_values(_, _)
pop_values(v, offset) ==
    IF Len(v.stack) > offset THEN pop_values(managed_pop(v).vm, offset) ELSE v

\* Vm::pop_frame
pop_frame(v) ==
    IF v.frames = <<>> THEN v
    ELSE pop_values([v EXCEPT !.frames = SubSeq(@, 1, Len(@) - 1)],
                    v.frames[Len(v.frames)].offset)

\* numeric_ops!
numeric_ops(a, b) ==
    IF a.kind = b.kind /\ a.kind \in {"Float", "Integer"}
    THEN [ok |-> TRUE, value |-> SlabValue(a.kind, 0)]
    ELSE [ok |-> FALSE, value |-> SlabValue("Unit", 0)]

\* primitive_ops!
primitive_ops(a, b) ==
    IF a.kind = b.kind /\ a.kind \in {"Bool", "Integer"}
    THEN [ok |-> TRUE, value |-> SlabValue("Bool", 1)]
    ELSE [ok |-> FALSE, value |-> SlabValue("Unit", 0)]

\* Inst::Array, the move of `count` stack entries into the array
RECURSIVE take_array(_, _, _)
take_array(v, count, array) ==
    IF count = 0 THEN [vm |-> v, ok |-> TRUE, array |-> array]
    ELSE IF v.stack = <<>> THEN [vm |-> v, ok |-> FALSE, array |-> array]
    ELSE take_array([v EXCEPT !.stack = SubSeq(@, 1, Len(@) - 1)], count - 1,
                    Append(array, v.stack[Len(v.stack)]))

\* Inst::eval before its gc pass.  The numbers of the model are zero; the
\* instruction pointer is left out, for the instructions are drawn freely.
eval_inst(v, inst) ==
    LET b == managed_pop(v)
        a == managed_pop(b.vm)
        taken == take_array(v, inst.n, <<>>)
    IN
    IF inst.op = "Call" THEN push_frame(v, 0, inst.n)
    ELSE IF inst.op = "Return" THEN
        IF v.stack = <<>> THEN Raise(v, "StackEmpty")
        ELSE LET popped == [v EXCEPT !.stack = SubSeq(@, 1, Len(@) - 1)]
                 framed == pop_frame(popped)
             IN [framed EXCEPT !.exited = framed.frames = <<>>,
                               !.stack = Append(@, v.stack[Len(v.stack)])]
    ELSE IF inst.op = "ReturnUnit" THEN
        LET framed == pop_frame(v) IN
        managed_push([framed EXCEPT !.exited = framed.frames = <<>>],
                     SlabValue("Unit", 0))
    ELSE IF inst.op = "Pop" THEN b.vm
    ELSE IF inst.op \in {"Integer", "Float", "Unit"}
    THEN managed_push(v, SlabValue(inst.op, 0))
    ELSE IF inst.op = "Copy" THEN stack_copy_frame(v, inst.n)
    ELSE IF inst.op = "Jump" THEN v
    ELSE IF inst.op \in {"Add", "Sub", "Mul", "Lt", "Gt", "Eq"} THEN
        LET r == IF inst.op \in {"Add", "Sub", "Mul"}
                 THEN numeric_ops(a.value, b.value)
                 ELSE primitive_ops(a.value, b.value)
        IN
        IF ~b.some THEN Raise(b.vm, "StackEmpty")
        ELSE IF ~a.some THEN Raise(a.vm, "StackEmpty")
        ELSE IF ~r.ok THEN Raise(a.vm, "UnsupportedOperation")
        ELSE managed_push(a.vm, r.value)
    ELSE IF inst.op \in {"JumpIf", "JumpIfNot"} THEN
        IF ~b.some THEN Raise(b.vm, "StackEmpty")
        ELSE IF b.value.kind # "Bool" THEN Raise(b.vm, "StackTopTypeError")
        ELSE b.vm
    ELSE \* Array
        IF ~taken.ok THEN Raise(taken.vm, "StackEmpty")
        ELSE managed_push(
                [taken.vm EXCEPT !.arrays =
                    slab_insert(@, [vacant |-> FALSE, array |-> taken.array])],
                SlabValue("Array", slab_key(taken.vm.arrays)))

\* Inst::eval
eval(v, inst) ==
    LET r == eval_inst(v, inst) IN
    IF r.err # "" THEN r ELSE gc(r)

\* ToValue::to_value and Vm::managed_push of one argument of
\* Vm::call_function
encode(v, kind) ==
    IF kind = "String"
    THEN managed_push([v EXCEPT !.strings = slab_insert(@, "Box")],
                      SlabValue("String", slab_key(v.strings)))
    ELSE IF kind = "External"
    THEN managed_push([v EXCEPT !.externals = slab_insert(@, "Box")],
                      SlabValue("External", slab_key(v.externals)))
    ELSE managed_push(v, SlabValue(kind, 0))

RECURSIVE encode_all(_, _)
encode_all(v, args) ==
    IF args = <<>> THEN v ELSE encode_all(encode(v, Head(args)), Tail(args))

\* Vm::call_function
call_function(v, args) ==
    LET encoded == encode_all(v, args) IN
    [encoded EXCEPT !.frames =
        Append(@, [ip |-> 0, offset |-> Len(encoded.stack) - Len(args)])]

\* ------------------------------------------------------------------------
\* State

VARIABLES
    vm,         \* the host's Vm
    heap,       \* the coroutine objects created by the Vm
    budget,     \* the thread's budget cell
    callstack,  \* the thread's open scopes: budget::with, acquire, Vm::run
    halt,       \* what the last run of the host's Vm returned
    entry,      \* the entry point and arguments of the current execution
    total,      \* instructions executed since the entry point was set
    last,       \* the budget accounting of the last run of the host's Vm
    deque,      \* a VecDeque
    ideal,      \* the ideal sequence given the operations of deque, and
                \* what the last operation was and returned
    range,      \* a RangeTo, the value asked of it and the answer
    lexer,      \* a Lexer over a source, and the tokens it has returned
    query,      \* a Query resolving an import
    legacy,     \* the slab Vm of src/vm.rs
    host        \* what the host got from Vm::call, and from borrowing it

vars ==
    <<vm, heap, budget, callstack, halt, entry, total, last, deque, ideal,
      range, lexer, query, legacy, host>>

\* The variables of the other components, and their values while unused.
others == <<range, lexer, query, legacy, host>>
NoRange == range = [end |-> EmptyV, value |-> EmptyV, called |-> FALSE]
NoLexer == lexer = <<>>
NoQuery == query = <<>>
NoLegacy == legacy = <<>>
NoHost == host = <<>>
NoOthers == NoRange /\ NoLexer /\ NoQuery /\ NoLegacy /\ NoHost

\* The ideal sequence seq; op, arg, ret and err are the last operation on
\* the deque, its argument (the head it found, for make_contiguous), what
\* it returned and the error of the rune function; exp is what the ideal
\* sequence returns for it; prev is what the deque held before it; undo
\* says that it was a rotate_right(k) just after a rotate_left(k); next is
\* the next value pushed.
Ideal(seq, next) ==
    [seq |-> seq, op |-> "", arg |-> 0, ret |-> None, exp |-> None, err |-> NoHalt,
     prev |-> <<>>, undo |-> FALSE, next |-> next]
IdleDeque == deque = VecDeque_new /\ ideal = Ideal(<<>>, 1)
NoDeque == IdleDeque /\ NoOthers

\* A scope of the call stack.  guard is the value its BudgetGuard holds, who
\* the Vm a run works on (0: the host's Vm, i: the Vm of heap[i]); n is the
\* budget installed by with, or the budget the guard held when acquired;
\* pre is the budget of the thread just before the scope was entered;
\* calls and trues count take() and its true results; executed counts the
\* instructions a run has executed.  After a budget::with scope returned,
\* the variable last holds its n and the budget the closure left behind.
Scope(kind, guard, who, n, pre) ==
    [kind |-> kind, guard |-> guard, who |-> who, n |-> n, pre |-> pre,
     calls |-> 0, trues |-> 0, executed |-> 0, lastok |-> TRUE]

Top == callstack[Len(callstack)]
Pop == SubSeq(callstack, 1, Len(callstack) - 1)
HostRuns == IF callstack = <<>> THEN TRUE ELSE Top.kind # "run"

Status(k) == Halt(k, Discard, Discard, "", 0, 0)
NoRun == [n |-> 0, executed |-> 0, left |-> 0, k |-> "None", failed |-> NoHalt]

\* The calls the host makes: entry points of the unit with the arguments
\* their bodies distinguish, calls with a wrong argument count, and a name
\* the unit does not have.
HostCall(name, args) == [name |-> name, args |-> args]
Calls ==
    {HostCall("main_loop", <<>>), HostCall("bad", <<>>)}
    \cup {HostCall("rec", <<IntV(n)>>) : n \in 0..MaxArg}
    \cup {HostCall(e, <<IntV(x)>>) : e \in {"main_try", "outer"}, x \in {-1, 1}}
    \cup {HostCall("outer_opt", <<o>>) : o \in {Val("Some", 3), Val("None", 0)}}
    \cup {HostCall(e, <<IntV(1)>>) : e \in {"main_gen", "main_async", "main_stream"}}
    \cup {HostCall(e, <<Val("Foo", 5)>>) :
            e \in {"main_proto", "main_proto_bad", "main_assoc", "main_assoc_bad",
                   "main_mul"}}
    \cup {HostCall("main_mul", <<IntV(3)>>), HostCall("main_assoc", <<IntV(1)>>)}
    \cup {HostCall(e, <<Val("Bar", 5)>>) : e \in {"main_proto", "main_assoc"}}
    \cup {HostCall("rec", <<>>), HostCall("rec", <<IntV(1), IntV(2)>>),
          HostCall("nope", <<>>)}

Init ==
    /\ vm = with_stack(<<>>)
    /\ heap = <<>>
    /\ budget = UsizeMax
    /\ callstack = <<>>
    /\ halt = Status("Idle")
    /\ entry = [name |-> "", args |-> <<>>]
    /\ total = 0
    /\ last = NoRun
    /\ NoDeque

\* ------------------------------------------------------------------------
\* Host operations on the budget

HostDepth == Cardinality({i \in 1..Len(callstack) : callstack[i].kind # "run"})

\* budget::with(n, f).call(): the budget is replaced and f starts.
With(n) ==
    /\ HostRuns
    /\ HostDepth < MaxNest
    /\ LET r == BudgetCall(budget, n) IN
        /\ budget' = r.cell
        /\ callstack' = Append(callstack, Scope("with", r.guard, 0, n, budget))
    /\ UNCHANGED <<vm, heap, halt, entry, total, last, deque, ideal, others>>

\* f returns: the guard of Budget::call is dropped.
WithReturn ==
    /\ callstack # <<>>
    /\ Top.kind = "with"
    /\ budget' = drop(budget, Top.guard)
    /\ callstack' = Pop
    /\ last' = [NoRun EXCEPT !.n = Top.n, !.left = budget, !.k = "Returned"]
    /\ UNCHANGED <<vm, heap, halt, entry, total, deque, ideal, others>>

\* let mut guard = budget::acquire();
Acquire ==
    /\ HostRuns
    /\ HostDepth < MaxNest
    /\ LET r == acquire(budget) IN
        /\ budget' = r.cell
        /\ callstack' = Append(callstack, Scope("acquire", r.guard, 0, r.guard, budget))
    /\ UNCHANGED <<vm, heap, halt, entry, total, last, deque, ideal, others>>

\* guard.take()
Take ==
    /\ callstack # <<>>
    /\ Top.kind = "acquire"
    /\ Top.calls < MaxTakes
    /\ LET t == take(Top.guard) IN
        callstack' = [callstack EXCEPT ![Len(callstack)] =
            [@ EXCEPT !.guard = t.guard, !.calls = @ + 1,
                      !.trues = IF t.ok THEN @ + 1 ELSE @, !.lastok = t.ok]]
    /\ UNCHANGED <<vm, heap, budget, halt, entry, total, last, deque, ideal, others>>

\* the acquired guard goes out of scope
Release ==
    /\ callstack # <<>>
    /\ Top.kind = "acquire"
    /\ budget' = drop(budget, Top.guard)
    /\ callstack' = Pop
    /\ UNCHANGED <<vm, heap, halt, entry, total, last, deque, ideal, others>>

\* ------------------------------------------------------------------------
\* Host operations on the Vm

\* budget::with(n, || ...).call() around the host's use of the Vm
Budgeted(n) ==
    /\ callstack = <<>>
    /\ last' = NoRun
    /\ LET r == BudgetCall(budget, n) IN
        /\ budget' = r.cell
        /\ callstack' = Append(callstack, Scope("with", r.guard, 0, n, budget))
    /\ UNCHANGED <<vm, heap, halt, entry, total, deque, ideal, others>>

\* the closure given to budget::with returns
BudgetedReturn ==
    /\ callstack # <<>>
    /\ Top.kind = "with"
    /\ last' = NoRun
    /\ budget' = drop(budget, Top.guard)
    /\ callstack' = Pop
    /\ UNCHANGED <<vm, heap, halt, entry, total, deque, ideal, others>>

\* vm.execute(name, args): the values of the previous execution are dropped
\* with the stack.  When set_entrypoint fails, last.failed is the error.
Execute(name, args) ==
    /\ callstack = <<>>
    /\ LET e == execute(vm, name, args) IN
        /\ vm' = e.vm
        /\ halt' = IF e.ok THEN Status("Ready") ELSE halt
        /\ heap' = IF e.ok THEN <<>> ELSE heap
        /\ entry' = IF e.ok THEN [name |-> name, args |-> args] ELSE entry
        /\ total' = IF e.ok THEN 0 ELSE total
        /\ last' = IF e.ok THEN NoRun
                   ELSE [NoRun EXCEPT !.k = "Refused", !.failed = e.err]
    /\ UNCHANGED <<budget, callstack, deque, ideal, others>>

\* Host code uses the Vm as a ProtocolCaller: the protocol function is
\* called through call_instance_fn with an isolated frame on a Vm that has
\* not executed anything yet, and then run like an entry point.
ProtocolCall(target, name, args) ==
    /\ callstack = <<>>
    /\ halt.k = "Idle"
    /\ LET addr == StackAddr(vm)
           c == call_instance_fn(StackPush(vm, UnitV), heap, TRUE, target, name,
                                 args, addr) IN
        /\ c.result = "Frame"
        /\ vm' = c.res.vm
        /\ heap' = c.res.heap
    /\ halt' = Status("Ready")
    /\ entry' = [name |-> "", args |-> <<>>]
    /\ total' = 0
    /\ last' = NoRun
    /\ UNCHANGED <<budget, callstack, deque, ideal, others>>

\* execution.resume(): Vm::run starts and acquires the budget.
Run ==
    /\ HostRuns
    /\ halt.k \in {"Ready", "Limited"}
    /\ LET r == acquire(budget) IN
        /\ budget' = r.cell
        /\ callstack' = Append(callstack, Scope("run", r.guard, 0, r.guard, budget))
    /\ halt' = Status("Running")
    /\ last' = NoRun
    /\ UNCHANGED <<vm, heap, entry, total, deque, ideal, others>>

\* generator.next() called by the host: Generator::resume up to Vm::run.
GenNext(id) ==
    /\ HostRuns
    /\ id \in 1..Len(heap)
    /\ heap[id].kind = "Generator"
    /\ Len(heap[id].log) < MaxNexts
    /\ IF ~heap[id].execution
       THEN /\ heap' = [heap EXCEPT ![id].log = Append(@, GState("GeneratorComplete", EmptyV))]
            /\ UNCHANGED <<budget, callstack>>
       ELSE /\ heap' = [heap EXCEPT ![id] =
                          IF is_resumed(@) THEN resume_with(@, UnitV) ELSE @]
            /\ LET r == acquire(budget) IN
                /\ budget' = r.cell
                /\ callstack' = Append(callstack, Scope("run", r.guard, id, r.guard, budget))
    /\ last' = NoRun
    /\ UNCHANGED <<vm, halt, entry, total, deque, ideal, others>>

\* The run of the scope f returns h: its guard is dropped and the caller
\* of Vm::run takes over.
Finish(f, guard, rvm, rheap, h, executed) ==
    /\ budget' = drop(budget, guard)
    /\ callstack' = Pop
    /\ IF f.who = 0
       THEN /\ vm' = rvm
            /\ heap' = rheap
            /\ halt' = h
            /\ last' = [NoRun EXCEPT !.n = f.n, !.executed = executed,
                                      !.left = guard, !.k = h.k]
       ELSE LET a == after_run(rheap[f.who], rvm, h)
                obj == GeneratorResumed(a.obj, a.state) IN
            /\ heap' = [rheap EXCEPT ![f.who] =
                          [obj EXCEPT !.log = Append(@, GeneratorNext(a.state))]]
            /\ UNCHANGED <<vm, halt, last>>

\* One iteration of the loop of Vm::run.
Step ==
    /\ callstack # <<>>
    /\ Top.kind = "run"
    /\ total < MaxSteps
    /\ UNCHANGED <<deque, ideal, others>>
    /\ LET f == Top
           cur == IF f.who = 0 THEN vm ELSE heap[f.who].vm
           t == take(f.guard) IN
       IF ~t.ok
       THEN /\ Finish(f, t.guard, cur, heap, Limited, f.executed)
            /\ UNCHANGED <<entry, total>>
       ELSE LET r == Exec(cur, heap)
                n == IF IpInBounds(cur.ip) THEN 1 ELSE 0 IN
            /\ total' = IF f.who = 0 THEN total + n ELSE total
            /\ UNCHANGED entry
            /\ IF r.halt = NoHalt
               THEN /\ callstack' = [callstack EXCEPT ![Len(callstack)] =
                                       [@ EXCEPT !.guard = t.guard, !.executed = @ + n]]
                    /\ IF f.who = 0
                       THEN vm' = r.vm /\ heap' = r.heap
                       ELSE vm' = vm /\ heap' = [r.heap EXCEPT ![f.who].vm = r.vm]
                    /\ UNCHANGED <<budget, halt, last>>
               ELSE Finish(f, t.guard, r.vm, r.heap, r.halt, f.executed + n)

\* The host drives the Vm, with or without a budget.
Next ==
    \/ \E n \in 0..MaxBudget : Budgeted(n)
    \/ BudgetedReturn
    \/ \E c \in Calls : Execute(c.name, c.args)
    \/ ProtocolCall(Val("Foo", 5), "get", <<>>)
    \/ Run
    \/ \E id \in 1..Len(heap) : GenNext(id)
    \/ Step

Spec == Init /\ [][Next]_vars

\* The host uses the budget guards alone, nested.
NextBudget ==
    \/ \E n \in 0..MaxBudget : With(n)
    \/ WithReturn
    \/ Acquire
    \/ Take
    \/ Release

SpecBudget == Init /\ [][NextBudget]_vars

\* ------------------------------------------------------------------------
\* The operators of the Vm applied to a stack <<lhs, rhs, out>>

\* The operands: the integers at and next to the ends of the range, the
\* other inline values, a value that is neither inline nor an any-object,
\* and the any-objects Foo and Bar.
Operands ==
    {IntV(n) : n \in {IntMin, -1, 0, 1, 2, IntMax}}
    \cup {BoolV(TRUE), UnitV, Val("Tuple", 0), Val("Foo", 5), Val("Bar", 5)}

ArithmeticOp == {"Add", "Sub", "Mul", "Div", "Rem"}

InitOps ==
    /\ vm \in {with_stack(<<l, r, EmptyV>>) : l \in Operands, r \in Operands}
    /\ heap = <<>>
    /\ budget = UsizeMax
    /\ callstack = <<>>
    /\ halt = Status("Idle")
    /\ entry = HostCall("", <<>>)
    /\ total = 0
    /\ last = NoRun
    /\ NoDeque

\* The result r of one operator applied to the initial stack; entry keeps
\* the name of the operator and the stack it was applied to.
Applied(name, r) ==
    /\ halt = Status("Idle")
    /\ vm' = r.vm
    /\ heap' = r.heap
    /\ halt' = r.halt
    /\ entry' = HostCall(name, vm.stack)
    /\ UNCHANGED <<budget, callstack, total, last, deque, ideal, others>>

\* lhs op rhs -> out
Arithmetic(op) == Applied(op, op_arithmetic(vm, heap, op, 0, 1, 2))
\* lhs op= rhs
AssignArithmetic(op) ==
    Applied(op \o "Assign", op_assign_arithmetic(vm, heap, op, 0, 1))
\* lhs op= lhs
AssignArithmeticSame(op) ==
    Applied(op \o "AssignSame", op_assign_arithmetic(vm, heap, op, 0, 0))
\* !lhs -> out
Not == Applied("Not", op_not(vm, heap, 0, 2))

NextOps ==
    \/ \E op \in ArithmeticOp : Arithmetic(op)
    \/ \E op \in ArithmeticOp : AssignArithmetic(op)
    \/ \E op \in ArithmeticOp : AssignArithmeticSame(op)
    \/ Not

SpecOps == InitOps /\ [][NextOps]_vars

\* ------------------------------------------------------------------------
\* Select over a stack of future handles

\* The most futures a Select takes.
MaxSelect == 3

\* The heap holds a completed and a pending future; a slot of the stack
\* holds one of them or a value that is no future.
SelectHeap ==
    <<[Coroutine("Future", with_stack(<<>>)) EXCEPT !.execution = FALSE, !.state = "Exited"],
      Coroutine("Future", with_stack(<<>>))>>
SelectOperands == {Val("Future", 1), Val("Future", 2), IntV(0)}

InitSelect ==
    /\ \E s \in [1..MaxSelect -> SelectOperands], ip \in {0, 4} :
          vm = [with_stack([i \in 1..(MaxSelect + 1) |->
                              IF i <= MaxSelect THEN s[i] ELSE EmptyV])
                  EXCEPT !.ip = ip]
    /\ heap = SelectHeap
    /\ budget = UsizeMax
    /\ callstack = <<>>
    /\ halt = Status("Idle")
    /\ entry = HostCall("", <<>>)
    /\ total = 0
    /\ last = NoRun
    /\ NoDeque

\* Vm::run executes Select 0, len -> MaxSelect at ip; entry keeps the
\* instruction and the len values it found at its addresses.
Select(len) ==
    /\ halt = Status("Idle")
    /\ LET inst == Inst("Select", 0, len, MaxSelect, EmptyV, "")
           r == Dispatch(inst, [vm EXCEPT !.ip = vm.ip + 1], heap) IN
       /\ vm' = r.vm
       /\ heap' = r.heap
       /\ halt' = r.halt
       /\ entry' = HostCall("Select", SubSeq(vm.stack, 1, len))
    /\ UNCHANGED <<budget, callstack, total, last, deque, ideal, others>>

NextSelect == \E len \in 0..MaxSelect : Select(len)

SpecSelect == InitSelect /\ [][NextSelect]_vars

\* ------------------------------------------------------------------------
\* A VecDeque under pushes and pops

\* The largest capacity and the number of values pushed.
MaxCap == 5
MaxPush == 6

IdleVm ==
    /\ vm = with_stack(<<>>)
    /\ heap = <<>>
    /\ budget = UsizeMax
    /\ callstack = <<>>
    /\ halt = Status("Idle")
    /\ entry = HostCall("", <<>>)
    /\ total = 0
    /\ last = NoRun
NoVm == IdleVm /\ NoOthers
vmvars == <<vm, heap, budget, callstack, halt, entry, total, last>>

InitDeque == NoVm /\ NoDeque

\* The capacities try_reserve_for_push may allocate for a full deque, 0 for
\* a failed allocation.
Allocations(d) == IF is_full(d) THEN {0} \cup (capacity(d) + 1)..MaxCap ELSE {0}

\* The operation op(arg) took the deque to d and the ideal sequence to seq.
Operated(op, arg, d, seq) ==
    /\ deque' = d
    /\ ideal' = [Ideal(seq, ideal.next) EXCEPT
                    !.op = op, !.arg = arg, !.prev = Contents(deque),
                    !.undo = op = "rotate_right" /\ ideal.op = "rotate_left" /\ ideal.arg = arg]
    /\ UNCHANGED <<vmvars, others>>

Pushed(op, r, seq) ==
    /\ ideal.next <= MaxPush
    /\ deque' = r.d
    /\ ideal' = IF r.ok THEN [Ideal(seq, ideal.next + 1) EXCEPT !.op = op]
                ELSE [Ideal(ideal.seq, ideal.next) EXCEPT !.op = op, !.err = VmErr("AllocError")]
    /\ UNCHANGED <<vmvars, others>>

Popped(op, r, seq, exp) ==
    /\ deque' = r.d
    /\ ideal' = [Ideal(seq, ideal.next) EXCEPT !.op = op, !.ret = r.ret, !.exp = exp]
    /\ UNCHANGED <<vmvars, others>>

PushFront(new_capacity) ==
    Pushed("try_push_front", try_push_front(deque, IntV(ideal.next), new_capacity),
           <<IntV(ideal.next)>> \o ideal.seq)
PushBack(new_capacity) ==
    Pushed("try_push_back", try_push_back(deque, IntV(ideal.next), new_capacity),
           Append(ideal.seq, IntV(ideal.next)))
PopFront ==
    Popped("pop_front", pop_front(deque),
           IF ideal.seq = <<>> THEN <<>> ELSE Tail(ideal.seq),
           IF ideal.seq = <<>> THEN None ELSE Some(Head(ideal.seq)))
PopBack ==
    Popped("pop_back", pop_back(deque),
           IF ideal.seq = <<>> THEN <<>> ELSE SubSeq(ideal.seq, 1, Len(ideal.seq) - 1),
           IF ideal.seq = <<>> THEN None ELSE Some(ideal.seq[Len(ideal.seq)]))
MakeContiguous ==
    Operated("make_contiguous", deque.head, make_contiguous(deque), ideal.seq)
\* The sequence with its first mid elements moved to the back.
Rotated(seq, mid) == SubSeq(seq, mid + 1, Len(seq)) \o SubSeq(seq, 1, mid)
RotateLeft(mid) ==
    Operated("rotate_left", mid, rotate_left(deque, mid), Rotated(ideal.seq, mid))
RotateRight(k) ==
    Operated("rotate_right", k, rotate_right(deque, k),
             Rotated(ideal.seq, Len(ideal.seq) - k))

NextDeque ==
    \/ \E c \in Allocations(deque) : PushFront(c)
    \/ \E c \in Allocations(deque) : PushBack(c)
    \/ PopFront
    \/ PopBack

SpecDeque == InitDeque /\ [][NextDeque]_vars

\* ------------------------------------------------------------------------
\* make_contiguous and the rotations on deques of every shape

\* The largest capacity of these deques.
MaxShape == 6

RECURSIVE PushBacks(_, _, _, _)
\* try_push_back of the values first, first + 1, .. with the allocation c
PushBacks(d, first, n, c) ==
    IF n = 0 THEN d ELSE PushBacks(try_push_back(d, IntV(first), c).d, first + 1, n - 1, c)
RECURSIVE Cycles(_, _)
\* n times try_push_back(0) then pop_front: the head moves n slots on
Cycles(d, n) ==
    IF n = 0 THEN d ELSE Cycles(pop_front(try_push_back(d, IntV(0), 0).d).d, n - 1)

\* VecDeque::try_with_capacity(cap), its head moved h slots on, then the
\* values 1 .. l pushed at the back: every head and every length occur.
Shape(cap, h, l) ==
    PushBacks(Cycles(VecDeque([i \in 1..cap |-> Uninit], 0, 0), h), 1, l, 0)
Shapes ==
    {Shape(cap, h, l) : cap \in 1..MaxShape, h \in 0..(MaxShape - 1), l \in 0..MaxShape}
InitShape ==
    /\ NoVm
    /\ deque \in Shapes
    /\ ideal = Ideal(Contents(deque), MaxPush + 1)

NextShape ==
    \/ MakeContiguous
    \/ \E mid \in 0..deque.len : RotateLeft(mid)
    \/ \E k \in 0..deque.len : RotateRight(k)

SpecShape == InitShape /\ [][NextShape]_vars

\* ------------------------------------------------------------------------
\* The rune function rotate_left on the deque collected from 0..10

\* The length of the range 0..10 of the example of rotate_left, and the most
\* slots its deque has free.
RangeLen == 10
MaxFree == 2

\* (0..10).iter().collect::<VecDeque>() into a buffer of capacity cap
FromRange(cap) == PushBacks(VecDeque_new, 0, RangeLen, cap)

InitRange ==
    /\ NoVm
    /\ deque \in {FromRange(RangeLen + free) : free \in 0..MaxFree}
    /\ ideal = Ideal(Contents(deque), MaxPush + 1)

\* The rune function rotate_left
ModuleRotateLeft(mid) ==
    LET r == module_rotate_left(deque, mid) IN
    /\ deque' = r.d
    /\ ideal' = [Ideal(IF r.ok THEN Rotated(ideal.seq, mid) ELSE ideal.seq, ideal.next)
                    EXCEPT !.op = "module_rotate_left", !.arg = mid, !.err = r.err,
                           !.prev = Contents(deque)]
    /\ UNCHANGED <<vmvars, others>>

NextRange == \E mid \in 0..(deque.len + 1) : ModuleRotateLeft(mid)

SpecRange == InitRange /\ [][NextRange]_vars

\* ------------------------------------------------------------------------
\* binary_search on sorted deques of every shape

\* The largest capacity of these deques and the largest of their elements.
MaxSearch == 4
MaxKey == 3

RECURSIVE PushSorted(_, _)
\* try_push_back of the elements of seq below the capacity
PushSorted(d, seq) ==
    IF seq = <<>> THEN d ELSE PushSorted(try_push_back(d, Head(seq), 0).d, Tail(seq))

\* The ascending sequences of up to MaxSearch elements
SortedSeqs ==
    {s \in UNION {[1..l -> {IntV(k) : k \in 1..MaxKey}] : l \in 0..MaxSearch} :
        \A i \in 1..Len(s) : \A j \in i..Len(s) : s[i].v <= s[j].v}

InitSearch ==
    /\ NoVm
    /\ deque \in {PushSorted(Cycles(VecDeque([i \in 1..cap |-> Uninit], 0, 0), h), s) :
                    cap \in 1..MaxSearch, h \in 0..(MaxSearch - 1), s \in SortedSeqs}
    /\ ideal = Ideal(Contents(deque), MaxPush + 1)

BinarySearch(x) ==
    \E r \in binary_search(deque, IntV(x)) :
        /\ ideal' = [Ideal(ideal.seq, ideal.next) EXCEPT
                        !.op = "binary_search", !.arg = x, !.ret = r]
        /\ UNCHANGED deque
        /\ UNCHANGED <<vmvars, others>>

NextSearch == \E x \in 0..(MaxKey + 1) : BinarySearch(x)

SpecSearch == InitSearch /\ [][NextSearch]_vars

\* ------------------------------------------------------------------------
\* The rune functions insert, rotate_left, rotate_right, get and set

\* The number of values inserted.
MaxInsert == 3

\* The indices passed: those in range, the one just out of range, and the
\* largest usize.
Indices == 0..(deque.len + 1) \cup {UsizeMax}

\* The rune function op(index) returned r.
Called(op, index, r, ret, next) ==
    /\ deque' = r.d
    /\ ideal' = [Ideal(Contents(r.d), next) EXCEPT
                    !.op = op, !.arg = index, !.err = r.err, !.ret = ret]
    /\ UNCHANGED <<vmvars, others>>

ModuleInsert(index, new_capacity) ==
    /\ ideal.next <= MaxInsert
    /\ Called("module_insert", index, module_insert(deque, index, IntV(ideal.next), new_capacity),
              None, ideal.next + 1)
ModuleRotateRight(mid) ==
    Called("module_rotate_right", mid, module_rotate_right(deque, mid), None, ideal.next)
ModuleGet(index) ==
    LET r == module_get(deque, index) IN
    Called("module_get", index, r, IF r.ok THEN Some(r.ret) ELSE None, ideal.next)
ModuleSet(index) ==
    Called("module_set", index, module_set(deque, index, IntV(0)), None, ideal.next)

NextModule ==
    \/ \E index \in Indices, c \in {0, capacity(deque) + 2} : ModuleInsert(index, c)
    \/ \E mid \in Indices : ModuleRotateLeft(mid)
    \/ \E mid \in Indices : ModuleRotateRight(mid)
    \/ \E index \in Indices : ModuleGet(index)
    \/ \E index \in Indices : ModuleSet(index)

SpecModule == InitDeque /\ [][NextModule]_vars

\* ------------------------------------------------------------------------
\* contains on a RangeTo

\* The largest magnitude of the endpoints and values.
MaxEnd == 2

Endpoints ==
    {IntV(n) : n \in -MaxEnd..MaxEnd} \cup {IntV(IntMin), IntV(IntMax)}
        \cup {FloatV(n) : n \in -MaxEnd..MaxEnd} \cup {FloatV(NaN), BoolV(TRUE), UnitV}

InitRangeTo ==
    /\ IdleVm /\ IdleDeque /\ NoLexer /\ NoQuery /\ NoLegacy /\ NoHost
    /\ \E end \in Endpoints :
            range = [end |-> RangeTo(end).end, value |-> EmptyV, called |-> FALSE]

\* (..end).contains(value)
Contains(value) ==
    /\ range' = [end |-> range.end, value |-> value, called |-> TRUE,
                 ret |-> contains(RangeTo(range.end), value)]
    /\ UNCHANGED <<vmvars, deque, ideal, lexer, query, legacy, host>>

NextRangeTo == \E value \in Endpoints : Contains(value)

SpecRangeTo == InitRangeTo /\ [][NextRangeTo]_vars

\* ------------------------------------------------------------------------
\* Vm::call with references of the host as arguments

\* The number of any-object and tuple cells made.
MaxCells == 4

InitGuard ==
    /\ IdleVm /\ IdleDeque /\ NoRange /\ NoLexer /\ NoQuery /\ NoLegacy
    /\ host = [name |-> "", mode |-> "", ok |-> FALSE, value |-> EmptyV,
               during |-> FALSE, borrowed |-> "none"]

\* vm.call(name, (argument,)), the argument being unit, mine, &mine or
\* &mut mine.  during: the first field of the value returned could be
\* borrowed before Vm::call dropped its guard.
Call(name, mode) ==
    /\ Len(heap) < MaxCells
    /\ \E args \in {<<Arg(mode, UnitV)>>} :
       \E r \in {Vm_call(vm, heap, name, args)}, e \in {set_entrypoint(vm, name, 1)} :
       \E g \in {guarded_into_stack(e.vm, heap, args)} :
       \E c \in {IF e.ok THEN complete(g.vm, g.heap) ELSE [ok |-> FALSE]} :
           /\ vm' = r.vm
           /\ heap' = r.heap
           /\ host' = [name |-> name, mode |-> mode, ok |-> r.ok, value |-> r.value,
                       during |-> /\ e.ok
                                  /\ c.ok
                                  /\ tuple_first(c.heap, c.value).some
                                  /\ borrow_ref(c.heap, tuple_first(c.heap, c.value).value),
                       borrowed |-> "none"]
    /\ UNCHANGED <<budget, callstack, halt, entry, total, last, deque, ideal,
                   range, lexer, query, legacy>>

\* tuple.first().unwrap().borrow_ref::<MyAny>() on the value returned
BorrowRef ==
    /\ host.ok
    /\ tuple_first(heap, host.value).some
    /\ host' = [host EXCEPT !.borrowed =
                    IF borrow_ref(heap, tuple_first(heap, host.value).value) THEN "ok" ELSE "err"]
    /\ UNCHANGED <<vmvars, deque, ideal, range, lexer, query, legacy>>

NextGuard ==
    \/ \E name \in {"function", "tuple", "variant", "Tuple", "nope"},
          mode \in {"value", "any", "ref", "mut"} : Call(name, mode)
    \/ BorrowRef

SpecGuard == InitGuard /\ [][NextGuard]_vars

\* ------------------------------------------------------------------------
\* try_resize, try_resize_with and extend on a deque

\* The largest capacity and length of these deques, and the most
\* allocations one operation is given.
MaxResize == 3
MaxGrow == 2

\* What the allocator gives to the calls of try_grow of one operation
AllocSeqs == UNION {[1..n -> 1..MaxResize] : n \in 0..MaxGrow}

\* The values next, next + 1, .. of n calls of a generator or an iterator
Fresh(n) == [i \in 1..n |-> IntV(ideal.next + i - 1)]

\* The compound operation op(arg) returned r, having been given values.
Compound(op, arg, r, values) ==
    /\ ideal.next + Len(values) <= MaxResize + 2
    /\ deque' = r.d
    /\ ideal' = [Ideal(Contents(r.d), ideal.next + Len(values)) EXCEPT
                    !.op = op, !.arg = arg, !.prev = Contents(deque),
                    !.err = IF r.ok THEN NoHalt ELSE VmErr("AllocError")]
    /\ UNCHANGED <<vmvars, others>>

TryResize(new_len, clones, allocs) ==
    Compound("try_resize", new_len,
             try_resize(deque, new_len, IntV(ideal.next), clones, allocs), Fresh(1))
TryResizeWith(new_len, allocs) ==
    Compound("try_resize_with", new_len,
             try_resize_with(deque, new_len, Fresh(MaxResize), allocs),
             Fresh(IF new_len > deque.len THEN new_len - deque.len ELSE 0))
Extend(n, failing, allocs) ==
    Compound("extend", n, module_extend(deque, Fresh(n), failing, allocs), Fresh(n))

NextResize ==
    \/ \E new_len \in 0..MaxResize, clones \in 0..MaxResize, allocs \in AllocSeqs :
            TryResize(new_len, clones, allocs)
    \/ \E new_len \in 0..MaxResize, allocs \in AllocSeqs : TryResizeWith(new_len, allocs)
    \/ \E n \in 0..MaxGrow, failing \in BOOLEAN, allocs \in AllocSeqs :
            Extend(n, failing, allocs)
    \/ PopFront

SpecResize == InitDeque /\ [][NextResize]_vars

\* ------------------------------------------------------------------------
\* The lexer over the sources of at most MaxSource characters, as such and
\* behind the opening of an interpolated expression; the parser calls
\* Lexer::next for one token after the other.

MaxSource == 4

TemplateChars == {Backtick, "$", "{", "}", "a", "\\"}

Strings(chars, n) == UNION {[1..k -> chars] : k \in 0..n}

Sources ==
    {opening \o source :
        opening \in {<<>>, <<Backtick, "$", "{">>},
        source \in Strings(TemplateChars, MaxSource)}

InitLexer ==
    /\ IdleVm /\ IdleDeque /\ NoRange /\ NoQuery /\ NoLegacy /\ NoHost
    /\ \E source \in Sources :
            lexer \in {Lexer_new(source), without_processing(Lexer_new(source))}

\* lexer.next(); the error of a call ends the lexing of the source
LexerNext ==
    /\ ~Failed(lexer)
    /\ lexer' = [Lexer_next(lexer) EXCEPT
                    !.drained = lexer.cursor = Len(lexer.source)
                                /\ lexer.buffer = <<>>]
    /\ UNCHANGED <<vmvars, deque, ideal, range, query, legacy, host>>

SpecLexer == InitLexer /\ [][LexerNext]_vars

\* ------------------------------------------------------------------------
\* The lexer over template strings of at most MaxSegments segments: literal
\* text, an escape, and interpolations of an identifier, of a block and of
\* nothing.  `tokens` are the tokens the calls of Lexer::next have returned.

MaxSegments == 3

Literal == <<"a">>
Escape == <<"\\", "$">>
Interpolations == {<<"a">>, <<"{", "a", "}">>, <<>>}
Interpolated(expr) == <<"$", "{">> \o expr \o <<"}">>
Segments == {Literal, Escape} \cup {Interpolated(expr) : expr \in Interpolations}

RECURSIVE Flatten(_)
Flatten(seqs) == IF seqs = <<>> THEN <<>> ELSE Head(seqs) \o Flatten(Tail(seqs))

\* The source of the template string of the segments
TemplateSource(segments) == <<Backtick>> \o Flatten(segments) \o <<Backtick>>

InitTemplate ==
    /\ IdleVm /\ IdleDeque /\ NoRange /\ NoQuery /\ NoLegacy /\ NoHost
    /\ \E segments \in Strings(Segments, MaxSegments) :
            lexer = Lexer_new(TemplateSource(segments))
                        @@ [tokens |-> <<>>, segments |-> segments]

\* lexer.next() of the parser, which keeps the token
TemplateToken ==
    /\ ~Failed(lexer)
    /\ lexer.result # Eof
    /\ \E r \in {Lexer_next(lexer)} :
            lexer' = [r EXCEPT
                        !.drained = lexer.cursor = Len(lexer.source)
                                    /\ lexer.buffer = <<>>,
                        !.tokens = IF r.result.tag = "Some"
                                   THEN Append(@, r.result) ELSE @]
    /\ UNCHANGED <<vmvars, deque, ideal, range, query, legacy, host>>

SpecTemplate == InitTemplate /\ [][TemplateToken]_vars


\* The lexer over the sources that open with a single quote.

MaxLabel == 3

QuoteChars == {"'", "a", "A", "\\", "\n", "+"}

InitLabel ==
    /\ IdleVm /\ IdleDeque /\ NoRange /\ NoQuery /\ NoLegacy /\ NoHost
    /\ \E source \in Strings(QuoteChars, MaxLabel) :
            lexer = Lexer_new(<<"'">> \o source)

SpecLabel == InitLabel /\ [][LexerNext]_vars

\* Query::import of an item of one component; the entries index the items
\* of one component, importing items of at most MaxTarget components, or
\* form a ring of imports one longer than the recursion limit.

MaxTarget == 2

Components == {1, 2}

\* the items that an import may name: only the first component of an item
\* is indexed, and one component stands for those that follow it
Targets ==
    {<<c>> \o [i \in 1..k |-> 1] : c \in Components, k \in 0..(MaxTarget - 1)}

Names == {<<c>> : c \in Components}

Entries ==
    {NoEntry, OtherEntry} \cup {ImportEntry(target) : target \in Targets}
        \cup {AliasEntry(target) : target \in Names}

Indexed(entries) ==
    [i \in DOMAIN entries |->
        IF entries[i].kind = "Alias" THEN NoEntry ELSE entries[i]]

Aliases(entries) ==
    [i \in DOMAIN entries |->
        IF entries[i].kind = "Alias" THEN entries[i] ELSE NoEntry]

RingLen == IMPORT_RECURSION_LIMIT + 1

Ring == [i \in {<<c>> : c \in 1..RingLen} |->
            ImportEntry(<<(i[1] % RingLen) + 1>>)]

InitImport ==
    /\ IdleVm /\ IdleDeque /\ NoRange /\ NoLexer /\ NoLegacy /\ NoHost
    /\ \/ \E entries \in [Names -> Entries], item \in Names :
            query = Query_import(Indexed(entries), Aliases(entries), item)
       \/ query = Query_import(Ring, Aliases(Ring), <<1>>)

\* one round of the loop of Query::import; `held` collects the items that
\* the resolution has held at the start of a round
ImportRound(access) ==
    /\ query.result = ""
    /\ query' = [import_round(query, access) EXCEPT
                    !.held = @ \cup {query.item}]
    /\ UNCHANGED <<vmvars, deque, ideal, range, lexer, legacy, host>>

NextImport == \E access \in BOOLEAN : ImportRound(access)

SpecImport == InitImport /\ [][NextImport]_vars /\ WF_vars(NextImport)

\* Query::remove_indexed of the items of one component, each indexed with at
\* most MaxEntries entries.

MaxEntries == 3

EntryKinds == {"wildcard", "import", "item"}

\* The entries of the kinds, located in the order of their indexing
EntriesOf(kinds) ==
    [i \in DOMAIN kinds |->
        IF kinds[i] = "item" THEN IndexedItem(i)
        ELSE IndexedImport(kinds[i] = "wildcard", i)]

InitIndexed ==
    /\ IdleVm /\ IdleDeque /\ NoRange /\ NoLexer /\ NoLegacy /\ NoHost
    /\ \E kinds \in [Names -> Strings(EntryKinds, MaxEntries)] :
            query = [indexed |-> [item \in Names |-> EntriesOf(kinds[item])],
                     item |-> <<>>, entries |-> <<>>, result |-> NoIndexed]

\* self.remove_indexed(span, item); `entries` are the entries it found
RemoveIndexed(item) ==
    /\ query.result.tag # "AmbiguousItem"
    /\ \E r \in {remove_indexed(query.indexed, item)} :
            query' = [indexed |-> r.indexed, item |-> item,
                      entries |-> IF item \in DOMAIN query.indexed
                                  THEN query.indexed[item] ELSE <<>>,
                      result |-> r.result]
    /\ UNCHANGED <<vmvars, deque, ideal, range, lexer, legacy, host>>

NextIndexed == \E item \in Names : RemoveIndexed(item)

SpecIndexed == InitIndexed /\ [][NextIndexed]_vars

\* The slab Vm under the instructions of a task: Vm::call_function encodes
\* the arguments and opens the first frame, or Vm::run starts without one,
\* and Task::step evaluates one instruction after the other until the Vm
\* has exited or an instruction fails.  The instructions are drawn freely:
\* the first MaxInsts steps of every program are among them.

MaxInsts == 4

MaxArgs == 1

Insts ==
    {[op |-> op, n |-> 0] :
        op \in {"Return", "ReturnUnit", "Pop", "Integer", "Add", "Lt",
                "JumpIf"}}
    \cup {[op |-> op, n |-> n] :
            op \in {"Call", "Copy", "Array"}, n \in 0..2}

\* the stack entry that an instruction copies or pops, and its count
Concerned(v, inst) ==
    LET offset == IF inst.op = "Pop" THEN Len(v.stack) - 1
                  ELSE IF v.frames # <<>>
                  THEN v.frames[Len(v.frames)].offset + inst.n
                  ELSE inst.n
    IN
    IF inst.op \in {"Copy", "Pop"} /\ offset >= 0 /\ offset < Len(v.stack)
    THEN [op |-> inst.op, slot |-> v.stack[offset + 1],
          count |-> slab_get(v.values, v.stack[offset + 1]).count]
    ELSE [op |-> inst.op, slot |-> 0, count |-> 0]

InitLegacy ==
    /\ IdleVm /\ IdleDeque /\ NoRange /\ NoLexer /\ NoQuery /\ NoHost
    /\ legacy = [vm |-> SlabVm_new, steps |-> 0,
                 last |-> [op |-> "", slot |-> 0, count |-> 0]]

\* vm.call_function(functions, unit, name, args)
CallFunction(args) ==
    /\ legacy.vm = SlabVm_new
    /\ legacy' = [vm |-> call_function(legacy.vm, args), steps |-> 0,
                  last |-> [op |-> "call_function", slot |-> 0, count |-> 0]]
    /\ UNCHANGED <<vmvars, deque, ideal, range, lexer, query, host>>

\* task.step()
TaskStep(inst) ==
    /\ ~legacy.vm.exited
    /\ legacy.vm.err = ""
    /\ legacy.steps < MaxInsts
    /\ legacy' = [vm |-> eval(legacy.vm, inst), steps |-> legacy.steps + 1,
                  last |-> Concerned(legacy.vm, inst)]
    /\ UNCHANGED <<vmvars, deque, ideal, range, lexer, query, host>>

NextLegacy ==
    \/ \E args \in UNION {[1..k -> {"String", "External"}] :
                            k \in 0..MaxArgs} : CallFunction(args)
    \/ \E inst \in Insts : TaskStep(inst)

SpecLegacy == InitLegacy /\ [][NextLegacy]_vars

\* ------------------------------------------------------------------------
\* Tasks of the slab Vm one after the other: Vm::call_function opens a task,
\* Task::run_to_completion loops over its instructions and returns.

\* The number of tasks and the instructions drawn for them.
MaxTasks == 2

TaskInsts ==
    {[op |-> op, n |-> 0] : op \in {"Return", "ReturnUnit", "Integer", "Pop", "Call"}}

\* task: "" before the first, then "running", "done" or "failed"; executed
\* counts the instructions of the task, tasks the calls of call_function.
LegacyTask(v, task, op, executed, tasks) ==
    [vm |-> v, task |-> task, op |-> op, executed |-> executed, tasks |-> tasks]

InitTask ==
    /\ IdleVm /\ IdleDeque /\ NoRange /\ NoLexer /\ NoQuery /\ NoHost
    /\ legacy = LegacyTask(SlabVm_new, "", "", 0, 0)

\* vm.call_function(functions, unit, name, args) on a new Vm or after the
\* task before has returned
TaskCall(args) ==
    /\ legacy.task \in {"", "done"}
    /\ legacy.tasks < MaxTasks
    /\ legacy' = LegacyTask(call_function(legacy.vm, args), "running",
                            "call_function", 0, legacy.tasks + 1)
    /\ UNCHANGED <<vmvars, deque, ideal, range, lexer, query, host>>

\* One iteration of the loop of Task::run_to_completion
TaskEval(inst) ==
    /\ legacy.task = "running"
    /\ ~legacy.vm.exited
    /\ legacy.executed < MaxInsts
    /\ \E r \in {eval(legacy.vm, inst)} :
            legacy' = LegacyTask(r, IF r.err # "" THEN "failed" ELSE "running",
                                inst.op, legacy.executed + 1, legacy.tasks)
    /\ UNCHANGED <<vmvars, deque, ideal, range, lexer, query, host>>

\* The loop of Task::run_to_completion ends and eval_last reads the result.
TaskReturn ==
    /\ legacy.task = "running"
    /\ legacy.vm.exited
    /\ legacy' = [legacy EXCEPT
                    !.task = IF legacy.vm.stack = <<>> THEN "failed" ELSE "done",
                    !.vm.err = IF legacy.vm.stack = <<>> THEN "StackEmpty" ELSE @,
                    !.op = "run_to_completion"]
    /\ UNCHANGED <<vmvars, deque, ideal, range, lexer, query, host>>

NextTask ==
    \/ \E args \in UNION {[1..k -> {"String", "External"}] :
                            k \in 0..MaxArgs} : TaskCall(args)
    \/ \E inst \in TaskInsts : TaskEval(inst)
    \/ TaskReturn

SpecTask == InitTask /\ [][NextTask]_vars

\* ------------------------------------------------------------------------
\* call_instance_fn on a Vm whose stack holds the slots of the caller

\* The most slots of the caller.
MaxBase == 2

InitProtocol ==
    /\ vm \in {with_stack([i \in 1..n |-> EmptyV]) : n \in 0..MaxBase}
    /\ heap = <<>>
    /\ budget = UsizeMax
    /\ callstack = <<>>
    /\ halt = Status("Idle")
    /\ entry = HostCall("", <<>>)
    /\ total = 0
    /\ last = NoRun
    /\ NoDeque

\* self.call_instance_fn(Isolated::None, target, name, args, out); entry
\* keeps the name and the stack before the call, total the number of values
\* pushed and last.k the CallResult.
CallInstance(target, name, args, out) ==
    /\ halt = Status("Idle")
    /\ \E c \in {call_instance_fn(vm, heap, FALSE, target, name, args, out)} :
          /\ vm' = c.res.vm
          /\ heap' = c.res.heap
          /\ halt' = c.res.halt
          /\ last' = [NoRun EXCEPT !.k = c.result]
    /\ entry' = HostCall(type_hash(target) \o "::" \o name, vm.stack)
    /\ total' = Len(args) + 1
    /\ UNCHANGED <<budget, callstack, deque, ideal, others>>

NextProtocol ==
    \E target \in {Val("Foo", 5), Val("Bar", 5)},
       name \in {"ADD", "MUL", "get", "iter", "fut", "stream", "nope"},
       args \in {<<>>, <<IntV(1)>>, <<IntV(-1)>>},
       out \in {Discard, 0, 1} :
        CallInstance(target, name, args, out)

SpecProtocol == InitProtocol /\ [][NextProtocol]_vars

\* ------------------------------------------------------------------------
\* Tuple index get and set on a stack <<target, value, out>>

\* The largest index, and the most instructions of one behaviour.
MaxIndex == 2
MaxOps == 3

\* The targets: a Result of either kind, an Option of either kind, a tuple
\* struct of one field, two inline values and an any-object that is no
\* tuple.
TupleTargets ==
    {Val("Ok", 1), Val("Err", 1), Val("Some", 1), Val("None", 0), Val("Tuple", 1),
     UnitV, IntV(1), Val("Foo", 5)}

\* The stack is <<target, value, out>>.
InitTuple ==
    /\ vm \in {with_stack(<<t, IntV(n), EmptyV>>) : t \in TupleTargets, n \in {7, 8}}
    /\ heap = <<AnySequence("Tuple", <<IntV(1)>>)>>
    /\ budget = UsizeMax
    /\ callstack = <<>>
    /\ halt = Status("Idle")
    /\ entry = [name |-> "", args |-> <<>>, index |-> 0, heap |-> <<>>]
    /\ total = 0
    /\ last = NoRun
    /\ NoDeque

\* One instruction with the result r; entry keeps its name, its index and
\* the stack and heap it found.
IndexedAt(name, index, r) ==
    /\ halt.k \in {"Idle", "None"}
    /\ total < MaxOps
    /\ vm' = r.vm
    /\ heap' = r.heap
    /\ halt' = r.halt
    /\ entry' = [name |-> name, args |-> vm.stack, index |-> index, heap |-> heap]
    /\ total' = total + 1
    /\ UNCHANGED <<budget, callstack, last, deque, ideal, others>>

\* target.index = value
TupleIndexSet(index) == IndexedAt("Set", index, op_tuple_index_set(vm, heap, 0, index, 1))
\* out = target.index
TupleIndexGetAt(index) == IndexedAt("Get", index, op_tuple_index_get_at(vm, heap, 0, index, 2))

NextTuple ==
    \/ \E index \in 0..MaxIndex : TupleIndexSet(index)
    \/ \E index \in 0..MaxIndex : TupleIndexGetAt(index)

SpecTuple == InitTuple /\ [][NextTuple]_vars

\* ------------------------------------------------------------------------
\* JumpIf and JumpIfNot on a stack <<cond>>

\* The largest ip and jump target.
MaxIp == 3

\* The conditions: both booleans, integers, unit and an any-object.
Conditions == {BoolV(TRUE), BoolV(FALSE), IntV(0), IntV(1), UnitV, Val("Foo", 5)}

\* ip is the instruction after the jump instruction, as in Vm::run.
InitJump ==
    /\ vm \in {[with_stack(<<c>>) EXCEPT !.ip = ip] : c \in Conditions, ip \in 0..MaxIp}
    /\ heap = <<>>
    /\ budget = UsizeMax
    /\ callstack = <<>>
    /\ halt = Status("Idle")
    /\ entry = [name |-> "", args |-> <<>>, ip |-> 0, jump |-> 0]
    /\ total = 0
    /\ last = NoRun
    /\ NoDeque

\* One jump instruction with the result r; entry keeps its name, the stack
\* and ip it found and its jump target.
Jumped(name, jump, r) ==
    /\ halt = Status("Idle")
    /\ vm' = r.vm
    /\ heap' = r.heap
    /\ halt' = r.halt
    /\ entry' = [name |-> name, args |-> vm.stack, ip |-> vm.ip, jump |-> jump]
    /\ UNCHANGED <<budget, callstack, total, last, deque, ideal, others>>

JumpIf(jump) == Jumped("JumpIf", jump, op_jump_if(vm, heap, 0, jump))
JumpIfNot(jump) == Jumped("JumpIfNot", jump, op_jump_if_not(vm, heap, 0, jump))

NextJump ==
    \/ \E jump \in 0..MaxIp : JumpIf(jump)
    \/ \E jump \in 0..MaxIp : JumpIfNot(jump)

SpecJump == InitJump /\ [][NextJump]_vars

\* ------------------------------------------------------------------------
\* Vm::run started by a native function while another run is in progress

\* The most runs in progress at once.
MaxRuns == 2

InitNested == IdleVm /\ NoDeque

\* budget::with(n, || ...).call() around the host's use of the Vm
NestedWith(n) ==
    /\ callstack = <<>>
    /\ total' = 0
    /\ \E r \in {BudgetCall(budget, n)} :
          /\ budget' = r.cell
          /\ callstack' = <<Scope("with", r.guard, 0, n, budget)>>
    /\ UNCHANGED <<vm, heap, halt, entry, last, deque, ideal, others>>

\* Vm::run up to budget::acquire(), called by the closure of budget::with or
\* by a native function that an instruction of the run in progress called.
RunBegin ==
    /\ callstack # <<>>
    /\ Len(callstack) <= MaxRuns
    /\ total < MaxTakes
    /\ Top.kind = "run" => Top.executed > 0
    /\ \E r \in {acquire(budget)} :
          /\ budget' = r.cell
          /\ callstack' = Append(callstack, Scope("run", r.guard, 0, r.guard, budget))
    /\ UNCHANGED <<vm, heap, halt, entry, total, last, deque, ideal, others>>

\* One iteration of the loop of Vm::run: budget.take(), then either the
\* instruction is executed or the run returns VmHalt::Limited and its guard
\* is dropped.
RunIterate ==
    /\ callstack # <<>>
    /\ Top.kind = "run"
    /\ Top.calls < MaxTakes
    /\ \E t \in {take(Top.guard)} :
          IF t.ok
          THEN /\ callstack' = [callstack EXCEPT ![Len(callstack)] =
                      [@ EXCEPT !.guard = t.guard, !.calls = @ + 1, !.trues = @ + 1,
                                !.executed = @ + 1]]
               /\ total' = total + 1
               /\ UNCHANGED budget
          ELSE /\ callstack' = Pop
               /\ budget' = drop(budget, t.guard)
               /\ UNCHANGED total
    /\ UNCHANGED <<vm, heap, halt, entry, last, deque, ideal, others>>

\* The instruction executed ended the run (VmHalt::Exited): the guard of the
\* run is dropped.
RunExited ==
    /\ callstack # <<>>
    /\ Top.kind = "run"
    /\ Top.executed > 0
    /\ budget' = drop(budget, Top.guard)
    /\ callstack' = Pop
    /\ UNCHANGED <<vm, heap, halt, entry, total, last, deque, ideal, others>>

\* the closure given to budget::with returns
NestedReturn ==
    /\ callstack # <<>>
    /\ Top.kind = "with"
    /\ budget' = drop(budget, Top.guard)
    /\ callstack' = Pop
    /\ UNCHANGED <<vm, heap, halt, entry, total, last, deque, ideal, others>>

NextNested ==
    \/ \E n \in 0..MaxBudget : NestedWith(n)
    \/ RunBegin
    \/ RunIterate
    \/ RunExited
    \/ NestedReturn

SpecNested == InitNested /\ [][NextNested]_vars

\* ------------------------------------------------------------------------
\* budget::with(n, future) polled by an executor.  The future uses the
\* budget as Vm::run does: it acquires a guard, takes from it and drops it
\* before its poll returns.

\* The most polls of one future.
MaxPolls == 3

\* The future of budget::with(n, ..): budget is its field, polls the number
\* of polls that returned, ready whether the last returned Poll::Ready.
BudgetFuture(n) == [n |-> n, budget |-> n, polls |-> 0, ready |-> FALSE]

\* The thread polls the future with no budget of its own or inside a scope
\* that has one.
InitPoll ==
    /\ vm = with_stack(<<>>)
    /\ heap = <<>>
    /\ budget \in {UsizeMax, MaxBudget + 1}
    /\ callstack = <<>>
    /\ halt = Status("Idle")
    /\ entry \in {BudgetFuture(n) : n \in 0..MaxBudget}
    /\ total = 0
    /\ last = NoRun
    /\ NoDeque

\* Budget::poll up to this.value.poll(cx)
PollBegin ==
    /\ callstack = <<>>
    /\ ~entry.ready
    /\ entry.polls < MaxPolls
    /\ \E r \in {Budget_poll_begin(budget, entry.budget)} :
          /\ budget' = r.cell
          /\ callstack' = <<Scope("poll", r.guard, 0, entry.budget, budget)>>
    /\ UNCHANGED <<vm, heap, halt, entry, total, last, deque, ideal, others>>

\* The future acquires a guard: let mut guard = budget::acquire();
PollAcquire ==
    /\ callstack # <<>>
    /\ Top.kind = "poll"
    /\ \E r \in {acquire(budget)} :
          /\ budget' = r.cell
          /\ callstack' = Append(callstack, Scope("acquire", r.guard, 0, r.guard, budget))
    /\ UNCHANGED <<vm, heap, halt, entry, total, last, deque, ideal, others>>

\* guard.take(); total counts the units granted to the future.
PollTake ==
    /\ callstack # <<>>
    /\ Top.kind = "acquire"
    /\ Top.calls < MaxTakes
    /\ \E t \in {take(Top.guard)} :
          /\ callstack' = [callstack EXCEPT ![Len(callstack)] =
                [@ EXCEPT !.guard = t.guard, !.calls = @ + 1,
                          !.trues = IF t.ok THEN @ + 1 ELSE @, !.lastok = t.ok]]
          /\ total' = IF t.ok THEN total + 1 ELSE total
    /\ UNCHANGED <<vm, heap, budget, halt, entry, last, deque, ideal, others>>

\* the guard of the future is dropped
PollRelease ==
    /\ callstack # <<>>
    /\ Top.kind = "acquire"
    /\ budget' = drop(budget, Top.guard)
    /\ callstack' = Pop
    /\ last' = [last EXCEPT !.executed = Top.calls, !.failed = IF Top.lastok THEN NoHalt ELSE Limited]
    /\ UNCHANGED <<vm, heap, halt, entry, total, deque, ideal, others>>

\* this.value.poll(cx) returns Ready or Pending and Budget::poll returns;
\* last keeps the budget installed by the poll and the budget it left.
PollEnd(ready) ==
    /\ callstack # <<>>
    /\ Top.kind = "poll"
    /\ \E r \in {Budget_poll_end(budget, Top.guard, entry.budget)} :
          /\ budget' = r.cell
          /\ entry' = [entry EXCEPT !.budget = r.budget, !.polls = @ + 1, !.ready = ready]
    /\ callstack' = <<>>
    /\ last' = [last EXCEPT !.n = Top.n, !.left = budget, !.k = "Polled"]
    /\ UNCHANGED <<vm, heap, halt, total, deque, ideal, others>>

NextPoll ==
    \/ PollBegin
    \/ PollAcquire
    \/ PollTake
    \/ PollRelease
    \/ \E ready \in BOOLEAN : PollEnd(ready)

SpecPoll == InitPoll /\ [][NextPoll]_vars

\* ------------------------------------------------------------------------
\* Properties

RunEnded == last.k \in {"Limited", "Exited", "Yielded", "Error"}
Running == IF callstack = <<>> THEN FALSE ELSE Top.kind = "run"
Finite(sc) == sc.n < UsizeMax

\* The accounting of a budgeted run: its guard holds what is left of the
\* budget it acquired, one unit less for every instruction executed.
C1_Accounting ==
    /\ \A i \in 1..Len(callstack) :
          (callstack[i].kind = "run" /\ Finite(callstack[i]))
              => callstack[i].guard = callstack[i].n - callstack[i].executed
    /\ (RunEnded /\ last.n < UsizeMax) => last.left = last.n - last.executed
    /\ (RunEnded /\ last.n < UsizeMax /\ last.k = "Limited")
          => (last.executed = last.n /\ last.left = 0)
    /\ (RunEnded /\ last.n < UsizeMax /\ entry.name = "main_loop")
          => (last.k = "Limited" /\ last.executed = last.n)

\* The iteration that finds the budget at zero returns Limited and neither
\* fetches nor executes; an iteration that finds budget executes one
\* instruction and does not return Limited.
C1_Step ==
    (Running /\ Top.who = 0) =>
        IF Top.guard = 0
        THEN /\ halt'.k = "Limited"
             /\ vm' = vm /\ heap' = heap /\ total' = total
             /\ callstack' = Pop
        ELSE /\ halt'.k # "Limited"
             /\ total' = total + 1

\* C1: every instruction executed inside Vm::run consumes exactly one unit
\* of budget; when the budget is zero at the top of the loop, run returns
\* VmHalt::Limited without fetching the next instruction; a program that
\* loops forever, run with a budget of n, halts with Limited after exactly
\* n instructions.
C1_Budget == [] C1_Accounting /\ [][C1_Step]_vars

\* The looping program was stopped after exactly MaxBudget instructions.
C1_Witness ==
    /\ entry.name = "main_loop"
    /\ last.k = "Limited"
    /\ last.n = MaxBudget
    /\ last.executed = MaxBudget
    /\ total = MaxBudget

\* The same execution without a budget: the Vm the entry point sets up, and
\* what k iterations of the loop make of it, stopping at the first halt.
Start(e) == execute(with_stack(<<>>), e.name, e.args).vm

Unbudgeted(e, k) == Iterate(Start(e), <<>>, k)

\* Between the runs of an execution, and while a run is executing, the
\* host's Vm is what the unbudgeted execution has after the same number of
\* instructions: a Limited halt leaves ip, stack and call frames intact.
C2_Intact ==
    (entry.name # "" /\ halt.k \in {"Ready", "Limited", "Running"}) =>
        LET u == Unbudgeted(entry, total) IN
        /\ u.halt = NoHalt
        /\ u.vm = vm
        /\ Len(u.heap) = Len(heap)

\* However the execution was cut into budgeted runs, it ends with the
\* halt and the Vm of the unbudgeted execution, after the same number of
\* instructions.
C2_SameResult ==
    (entry.name # "" /\ halt.k \in {"Exited", "Yielded", "Error"}) =>
        LET u == Unbudgeted(entry, total) IN
        /\ u.halt = halt
        /\ u.vm = vm
        /\ Unbudgeted(entry, total - 1).halt = NoHalt

\* A run with budget n is Limited exactly when the execution needs more
\* than n further instructions; one that needs exactly n completes.
C2_Enough ==
    (entry.name # "" /\ RunEnded /\ last.n < UsizeMax) =>
        /\ last.executed <= last.n
        /\ last.k = "Limited"
              <=> Unbudgeted(entry, total - last.executed + last.n).halt = NoHalt

\* C2: a program that needs N instructions completes under a budget of N;
\* under N - 1 run returns Limited with ip, stack and call frames intact,
\* and resuming the execution completes it with the same result.
C2_Resume == C2_Intact /\ C2_SameResult /\ C2_Enough

\* rec(MaxArg) completed in a run that used its budget to the last unit,
\* after an earlier run of the same execution had been Limited.
C2_Witness ==
    /\ entry = HostCall("rec", <<IntV(MaxArg)>>)
    /\ halt.k = "Exited"
    /\ last.k = "Exited"
    /\ last.executed = last.n
    /\ last.executed < total

\* Entering a budget::with scope installs its budget; leaving it puts back
\* the budget that was current just before the call, whatever the closure
\* consumed or installed in between.
C3_Step ==
    /\ (Len(callstack') = Len(callstack) + 1
            /\ callstack'[Len(callstack')].kind = "with")
          => /\ budget' = callstack'[Len(callstack')].n
             /\ callstack'[Len(callstack')].pre = budget
    /\ (Len(callstack') = Len(callstack) - 1 /\ Top.kind = "with")
          => budget' = Top.pre

\* With every scope left, the thread has the budget it started with.
C3_Unwound == callstack = <<>> => budget = UsizeMax

\* C3: budget::with(n, f).call() installs n as the current budget for the
\* duration of f and restores the budget that was current before the call
\* when f returns; nested calls restore in LIFO order.
C3_Restore == [] C3_Unwound /\ [][C3_Step]_vars

\* An inner budget::with has returned inside an outer one whose budget had
\* been partly consumed: the budget is back at what was left, which is
\* neither budget installed.
C3_Witness ==
    /\ last.k = "Returned"
    /\ Len(callstack) = 1
    /\ Top.kind = "with"
    /\ budget # last.n
    /\ budget # Top.n
    /\ budget # UsizeMax

\* A guard acquired with a finite budget n has granted min(calls, n) of the
\* calls of take made so far, the first n of them.
C4_Counts ==
    \A i \in 1..Len(callstack) :
        LET sc == callstack[i] IN
        (sc.kind = "acquire" /\ Finite(sc)) =>
            /\ sc.trues = Min(sc.calls, sc.n)
            /\ sc.guard = sc.n - sc.trues
            /\ sc.calls > 0 => (sc.lastok <=> sc.calls <= sc.n)

\* A guard acquired inside budget::with(n) holds at most n, and exactly n
\* when nothing was acquired before it in that scope.
C4_Inside ==
    \A i \in 2..Len(callstack) :
        (callstack[i].kind = "acquire" /\ callstack[i - 1].kind = "with")
            => callstack[i].n <= callstack[i - 1].n

\* C4: inside budget::with(n, ...) with n < usize::MAX, a guard obtained
\* from acquire() returns true from take() exactly n times and false on
\* every later call.
C4_Take == C4_Counts /\ C4_Inside

\* Inside with(2) a fresh guard was asked MaxTakes times: two grants, and
\* the last call refused.
C4_Witness ==
    /\ Len(callstack) = 2
    /\ callstack[1].kind = "with" /\ callstack[1].n = 2
    /\ Top.kind = "acquire" /\ Top.n = 2
    /\ Top.calls = MaxTakes
    /\ Top.trues = 2
    /\ ~Top.lastok

\* The run of the host's Vm is about to execute an instruction: it has
\* budget and ip is inside the unit.
HostStep == Running /\ Top.who = 0 /\ Top.guard # 0 /\ IpInBounds(vm.ip)
CurInst == instruction_at(vm.ip)
HasFrame == vm.call_frames # <<>>
Frame == vm.call_frames[Len(vm.call_frames)]
Front(q) == SubSeq(q, 1, Len(q) - 1)
ReturnStep == HostStep /\ CurInst.op \in {"Return", "ReturnUnit"} /\ HasFrame

\* What Return and ReturnUnit do with the call frame they pop.
C5_Step ==
    ReturnStep =>
        /\ vm'.call_frames = Front(vm.call_frames)
        /\ Len(vm'.stack) = vm.top
        /\ vm'.top = Frame.top
        /\ vm'.ip = Frame.ip
        /\ IF Frame.isolated
           THEN halt' = Exited(Frame.out) /\ callstack' = Pop
           ELSE halt' = halt /\ Len(callstack') = Len(callstack)

\* C5: when Return or ReturnUnit executes, the current call frame is popped,
\* the stack is cut back to the base of the returning frame (its length when
\* the frame was pushed, so the caller's window stays), the top of the stack
\* is set back to the frame's saved top and ip to the frame's saved return
\* address before the caller continues; if the popped frame is isolated, run
\* stops with Exited(out) instead of continuing.
C5_Return == [][C5_Step]_vars

\* The statement as the specification has it: after Return the length of the
\* stack is the popped frame's saved top.
C5_Literal == [][ReturnStep => Len(vm'.stack) = Frame.top]_vars

\* States after a Return from a frame: the protocol function called by the
\* host returned from its isolated frame, which ended the run; a callee of
\* rec returned and rec goes on above its own slots.
C5_WitnessIsolated ==
    /\ entry.name = "" /\ halt.k = "Exited" /\ total = 1
    /\ vm.call_frames = <<>> /\ vm.top = 0 /\ Len(vm.stack) = 2
    /\ StackAt(vm, halt.addr) = Val("Foo", 5)
C5_Witness ==
    /\ entry = HostCall("rec", <<IntV(MaxArg)>>)
    /\ halt.k = "Running"
    /\ Len(vm.call_frames) = MaxArg - 1
    /\ Len(vm.stack) > vm.top
    /\ IpInBounds(vm.ip) /\ instruction_at(vm.ip - 1).op = "Call"
    /\ StackAt(vm, instruction_at(vm.ip - 1).out).t = "Int"

\* The instructions that can push a call frame, and the Call instructions
\* that do: to a unit function of the Immediate convention, with the
\* argument count it declares.
CallOps == {"Call", "CallAssociated", "Add", "Sub", "Mul"}
ImmediateCall(inst) ==
    /\ inst.op = "Call"
    /\ UnitHas(inst.hash)
    /\ UnitFunctions[inst.hash].call = "Immediate"
    /\ check_args(inst.b, UnitFunctions[inst.hash].args)

\* Every frame pushed by an instruction holds the ip just past that
\* instruction and its output.
C6_Frames ==
    \A i \in 1..Len(vm.call_frames) :
        LET fr == vm.call_frames[i] IN
        ~fr.isolated =>
            /\ IpInBounds(fr.ip - 1)
            /\ instruction_at(fr.ip - 1).op \in CallOps
            /\ instruction_at(fr.ip - 1).out = fr.out

\* rec(n) calls itself n deep and adds one per level on the way back.
C6_Result ==
    (entry.name = "rec" /\ halt.k = "Exited")
        => StackAt(vm, halt.addr) = entry.args[1]

C6_Step ==
    /\ (HostStep /\ ImmediateCall(CurInst)) =>
          /\ vm'.call_frames =
                Append(vm.call_frames,
                       CallFrame(vm.ip + 1, vm.top, FALSE, CurInst.out))
          /\ vm'.ip = UnitFunctions[CurInst.hash].offset
          /\ halt' = halt
    /\ (ReturnStep /\ ~Frame.isolated) =>
          /\ vm'.call_frames = Front(vm.call_frames)
          /\ vm'.ip = Frame.ip
          /\ instruction_at(vm'.ip - 1).out = Frame.out
          /\ StackAt(vm', Frame.out) =
                IF CurInst.op = "Return" THEN StackAt(vm, CurInst.a) ELSE UnitV
          /\ halt' = halt
    /\ HostStep =>
          \/ vm'.call_frames = vm.call_frames
          \/ vm'.call_frames = Front(vm.call_frames)
          \/ /\ vm'.call_frames # <<>>
             /\ Front(vm'.call_frames) = vm.call_frames

\* C6: an Immediate call pushes exactly one call frame and execution
\* continues in the callee; after any nesting of Immediate calls, returns
\* unwind the frames in reverse order of the calls, and after each callee
\* returns its caller resumes at the instruction following the call with
\* the return value stored at the call's output address.
C6_Immediate == [](C6_Frames /\ C6_Result) /\ [][C6_Step]_vars

\* rec(MaxArg) has unwound all its frames and exited with MaxArg.
C6_Witness ==
    /\ entry = HostCall("rec", <<IntV(MaxArg)>>)
    /\ halt.k = "Exited"
    /\ vm.call_frames = <<>>
    /\ StackAt(vm, halt.addr) = IntV(MaxArg)
    /\ total > 10 * MaxArg

\* The run of the host's Vm is about to execute Try on this value.
TryStep == HostStep /\ CurInst.op = "Try"
TryValue == StackAt(vm, CurInst.a)
Fetched == [vm EXCEPT !.ip = @ + 1]

C7_Step ==
    /\ (TryStep /\ TryValue.t \in {"Ok", "Some"}) =>
          /\ StoreOk(vm, CurInst.out)
          /\ vm' = StackStore(Fetched, CurInst.out, IntV(TryValue.v))
          /\ halt' = halt
    /\ (TryStep /\ TryValue.t \in {"Err", "None"}) =>
          LET r == op_return(Fetched, heap, CurInst.a) IN
          /\ vm' = r.vm
          /\ heap' = r.heap
          /\ halt' = IF r.halt = NoHalt THEN halt ELSE r.halt
          /\ halt'.k # "Error"
          /\ HasFrame => /\ vm'.call_frames = Front(vm.call_frames)
                         /\ StackAt(vm', Frame.out) = TryValue

\* What the functions around the Try return to the host.
TryResult(e) ==
    CASE e.name \in {"main_try", "outer"} ->
            IF e.args[1].v < 0 THEN Val("Err", 7) ELSE IntV(2 * e.args[1].v)
      [] e.name = "outer_opt" ->
            IF e.args[1].t = "Some" THEN IntV(e.args[1].v) ELSE e.args[1]

C7_Result ==
    (entry.name \in {"main_try", "outer", "outer_opt"}
            /\ halt.k \in {"Exited", "Yielded", "Error"})
        => /\ halt.k = "Exited"
           /\ StackAt(vm, halt.addr) = TryResult(entry)

\* C7: Try on Ok(v) or Some(v) writes v to its output and continues with
\* the next instruction; Try on Err(e) or None has the same effect on call
\* frames, stack, ip and halt outcome as executing Return with that
\* Err(e)/None value, so the enclosing script function returns Err(e)
\* without a VM error or panic.
C7_Try == [] C7_Result /\ [][C7_Step]_vars

\* outer(-1): the Try in main_try met Err(7) and returned it to outer, which
\* returned it to the host.
C7_Witness ==
    /\ entry = HostCall("outer", <<IntV(-1)>>)
    /\ halt.k = "Exited"
    /\ StackAt(vm, halt.addr) = Val("Err", 7)

\* The unit function an instruction is about to call, if any, with the
\* number of arguments the instruction passes: Call by hash, CallAssociated
\* on the type of the instance, an arithmetic instruction on a
\* non-inline left operand through its protocol.
Callee(inst) ==
    CASE inst.op = "Call" -> [hash |-> inst.hash, count |-> inst.b, native |-> FALSE]
      [] inst.op = "CallAssociated" ->
            LET hash == associated_function(type_hash(StackAt(vm, inst.a)), inst.hash) IN
            [hash |-> hash, count |-> inst.b, native |-> ContextHas(hash)]
      [] inst.op \in {"Add", "Sub", "Mul"} ->
            LET l == StackAt(vm, inst.a)
                hash == associated_function(type_hash(l), ArithmeticOps(inst.op).protocol) IN
            IF IsAny(l) THEN [hash |-> hash, count |-> 2, native |-> ContextHas(hash)]
            ELSE [hash |-> "", count |-> 0, native |-> FALSE]
      [] OTHER -> [hash |-> "", count |-> 0, native |-> FALSE]

BadCall ==
    /\ HostStep
    /\ ~Callee(CurInst).native
    /\ UnitHas(Callee(CurInst).hash)
    /\ Callee(CurInst).count # UnitFunctions[Callee(CurInst).hash].args

\* A call instruction with the wrong number of arguments ends the run with
\* BadArgumentCount; the Vm is as the fetch of the instruction left it: no
\* frame pushed, the stack untouched, ip not moved to the callee.  A refused
\* entry point leaves the Vm and the state of the execution as they were.
C8_Step ==
    /\ BadCall =>
          /\ halt' = BadArgumentCount(Callee(CurInst).count,
                                      UnitFunctions[Callee(CurInst).hash].args)
          /\ vm' = Fetched
          /\ heap' = heap
    /\ (HostStep /\ halt'.err = "BadArgumentCount" /\ UnitHas(Callee(CurInst).hash)
            /\ ~Callee(CurInst).native) => BadCall
    /\ last'.k = "Refused" => (vm' = vm /\ halt' = halt /\ heap' = heap)

\* set_entrypoint on any state of the Vm, with any call of the host that has
\* the wrong number of arguments.
C8_Entry ==
    \A c \in Calls :
        (UnitHas(c.name) /\ Len(c.args) # UnitFunctions[c.name].args) =>
            LET e == set_entrypoint(vm, c.name, Len(c.args)) IN
            /\ ~e.ok
            /\ e.err = BadArgumentCount(Len(c.args), UnitFunctions[c.name].args)
            /\ e.vm = vm

\* C8: calling a unit function with an argument count different from its
\* declared count fails with BadArgumentCount {actual, expected} before
\* any call frame is pushed and before the instruction pointer is changed;
\* this holds for Call, CallAssociated, protocol dispatch and
\* set_entrypoint.
C8_Arity == [] C8_Entry /\ [][C8_Step]_vars

\* bad() called f with two arguments: the run ended in the error, with no
\* frame and ip just past the Call.
C8_Witness ==
    /\ entry.name = "bad"
    /\ halt = BadArgumentCount(2, 1)
    /\ vm.call_frames = <<>>
    /\ vm.top = 0
    /\ instruction_at(vm.ip - 1).op = "Call"

\* The run of the host's Vm is about to call a unit function of the Async,
\* Generator or Stream convention with the right number of arguments.
CoroutineCall ==
    /\ HostStep
    /\ CurInst.op = "Call"
    /\ UnitHas(CurInst.hash)
    /\ UnitFunctions[CurInst.hash].call \in {"Async", "Generator", "Stream"}
    /\ check_args(CurInst.b, UnitFunctions[CurInst.hash].args)

WrapperOf(call) ==
    CASE call = "Async" -> "Future"
      [] call = "Generator" -> "Generator"
      [] call = "Stream" -> "Stream"

C9_Step ==
    CoroutineCall =>
        LET info == UnitFunctions[CurInst.hash]
            id == Len(heap) + 1
            argv == [i \in 1..CurInst.b |-> StackAt(vm, CurInst.a + i - 1)] IN
        /\ vm'.call_frames = vm.call_frames
        /\ vm'.ip = vm.ip + 1
        /\ vm'.top = vm.top
        /\ Len(vm'.stack) = Len(vm.stack)
        /\ halt' = halt
        /\ total' = total + 1
        /\ Len(heap') = id
        /\ \A i \in 1..Len(heap) : heap'[i] = heap[i]
        /\ heap'[id].kind = WrapperOf(info.call)
        /\ heap'[id].vm =
              [ip |-> info.offset, stack |-> argv, top |-> 0, call_frames |-> <<>>]
        /\ heap'[id].state = "Initial"
        /\ StackAt(vm', CurInst.out) = Val(WrapperOf(info.call), id)
        /\ \A i \in 0..(CurInst.b - 1) :
              (CurInst.a + i # CurInst.out) => StackAt(vm', CurInst.a + i) = EmptyV
        /\ \A a \in 0..(StackAddr(vm) - 1) :
              (a # CurInst.out /\ (a < CurInst.a \/ a >= CurInst.a + CurInst.b))
                  => StackAt(vm', a) = StackAt(vm, a)

\* Until something resumes it, the Vm of a coroutine object stands at the
\* first instruction of its function with the arguments as its stack.
C9_Unstarted ==
    \A id \in 1..Len(heap) :
        (heap[id].state = "Initial" /\ heap[id].log = <<>>
                /\ \A i \in 1..Len(callstack) : callstack[i].who # id)
            => /\ heap[id].vm.ip = UnitFunctions["g"].offset
               /\ heap[id].vm.stack = entry.args
               /\ heap[id].vm.call_frames = <<>>

\* C9: calling a function whose convention is Async, Generator or Stream
\* executes no callee instruction at call time and pushes no call frame on
\* the caller: the arguments are moved from the caller's stack into a fresh
\* Vm positioned at the function's offset, a future/generator/stream value
\* wrapping that Vm is stored in the call's output, and the caller
\* continues at its next instruction.
C9_Coroutine == [] C9_Unstarted /\ [][C9_Step]_vars

\* main_gen(1) has called g and is about to return the generator: the
\* object is unstarted, its Vm holds the argument, the caller's argument
\* slot is empty and the caller has no frame more than before.
C9_Witness ==
    /\ entry.name = "main_gen"
    /\ halt.k = "Running"
    /\ total = 2
    /\ instruction_at(vm.ip).op = "Return"
    /\ vm.call_frames = <<>>
    /\ StackAt(vm, 1) = Val("Generator", 1)
    /\ StackAt(vm, 0) = EmptyV
    /\ Len(heap) = 1
    /\ heap[1].state = "Initial"
    /\ heap[1].vm = [ip |-> UnitFunctions["g"].offset, stack |-> <<IntV(1)>>,
                     top |-> 0, call_frames |-> <<>>]

\* What next() returned, without the calls that failed (a run cut short by
\* the budget, a call on a complete generator).
Returned(log) == SelectSeq(log, LAMBDA x : x.r \in {"Some", "None"})
IsPrefix(p, q) == Len(p) <= Len(q) /\ p = SubSeq(q, 1, Len(p))

\* g(a) yields a, a + 1, a + 2 and returns.
Yields(a) ==
    <<GState("Some", IntV(a)), GState("Some", IntV(a + 1)), GState("Some", IntV(a + 2)),
      GState("None", EmptyV)>>

C10_Order ==
    \A id \in 1..Len(heap) :
        heap[id].kind = "Generator" =>
            /\ IsPrefix(Returned(heap[id].log), Yields(entry.args[1].v))
            /\ ~heap[id].execution
                  <=> \E i \in 1..Len(heap[id].log) : heap[id].log[i].r = "None"

\* The run of a generator that ends gives next() its result: Some(v) with v
\* the operand of the Yield just executed, None when the function returned,
\* an error only when the budget ran out.
C10_Step ==
    (Running /\ Top.who # 0 /\ Len(callstack') < Len(callstack)) =>
        LET g == heap'[Top.who]
            new == g.log[Len(g.log)]
            inst == instruction_at(g.vm.ip - 1) IN
        /\ Len(g.log) = Len(heap[Top.who].log) + 1
        /\ new.r \in {"Some", "None", "Error"}
        /\ new.r = "Some" => (inst.op = "Yield" /\ new.value = StackAt(g.vm, inst.a))
        /\ new.r = "None" => inst.op \in {"Return", "ReturnUnit"}
        /\ new.r = "Error" => Top.guard = 0

\* C10: driving a generator with next() returns Some(v) for each Yield in
\* program order and returns None when the generator function returns; for
\* a function that yields 1, 2, 3 and then returns, exactly three Some
\* values (1, 2, 3) are produced before None.
C10_Generator == [] C10_Order /\ [][C10_Step]_vars

\* Four calls of next() on g(1): Some(1), Some(2), Some(3), None.
C10_Witness ==
    /\ Len(heap) = 1
    /\ heap[1].kind = "Generator"
    /\ heap[1].log = Yields(1)
    /\ ~heap[1].execution


\* A generator whose next() returned None holds no execution, no run works
\* on its Vm, and every later call got GeneratorComplete.
C11_Terminal ==
    \A id \in 1..Len(heap) :
        LET log == heap[id].log IN
        /\ \A i \in 1..Len(log) :
              log[i].r = "None" =>
                  /\ ~heap[id].execution
                  /\ \A j \in (i + 1)..Len(log) : log[j].r = "GeneratorComplete"
        /\ \A i \in 1..Len(log) :
              log[i].r = "GeneratorComplete" => \E j \in 1..(i - 1) : log[j].r = "None"
        /\ ~heap[id].execution => \A i \in 1..Len(callstack) : callstack[i].who # id

\* A call of next() on a generator without execution fails at once: no run
\* starts, the budget is not touched and the generator's Vm stays as it is.
C11_Step ==
    \A id \in 1..Len(heap) :
        (~heap[id].execution /\ Len(heap') = Len(heap) /\ heap'[id] # heap[id]) =>
            /\ heap'[id] = [heap[id] EXCEPT
                              !.log = Append(@, GState("GeneratorComplete", EmptyV))]
            /\ callstack' = callstack
            /\ budget' = budget
            /\ UNCHANGED <<vm, halt, total>>

\* C11: generator completion is terminal: once resume() has returned
\* Complete(v) the generator holds no execution, and every later resume()
\* or next() call fails with GeneratorComplete without executing any
\* instruction.
C11_Complete == [] C11_Terminal /\ [][C11_Step]_vars

\* g(1) was driven to its end and asked once more.
C11_Witness ==
    /\ Len(heap) = 1
    /\ ~heap[1].execution
    /\ Len(heap[1].log) = 5
    /\ heap[1].log[4].r = "None"
    /\ heap[1].log[5].r = "GeneratorComplete"
    /\ heap[1].state = "Exited"


\* The run of the host's Vm is about to call, by protocol or as an
\* associated function, a hash that both the unit and the context define.
BothDefine ==
    /\ HostStep
    /\ CurInst.op \in {"CallAssociated", "Add", "Sub", "Mul"}
    /\ Callee(CurInst).hash # ""
    /\ UnitHas(Callee(CurInst).hash)
    /\ ContextHas(Callee(CurInst).hash)

\* C12 (as stated): for protocol-dispatched operations and associated
\* function calls the function is looked up in the unit first and then in
\* the context, so when both define it the unit's function is the one
\* invoked: a frame is pushed and execution continues at its offset.
C12_UnitFirst ==
    [][BothDefine =>
          /\ Len(vm'.call_frames) = Len(vm.call_frames) + 1
          /\ vm'.ip = UnitFunctions[Callee(CurInst).hash].offset]_vars

\* C12 (what the code does): the context is looked up first, so when both
\* define the hash the native function is called: no frame is pushed, the
\* run goes on at the next instruction with the handler's result at out.
C12_ContextFirst ==
    [][BothDefine =>
          /\ vm'.call_frames = vm.call_frames
          /\ vm'.ip = vm.ip + 1
          /\ StackAt(vm', CurInst.out)
                = HandlerCall(Callee(CurInst).hash, Fetched, heap, CurInst.a,
                              Callee(CurInst).count, CurInst.out).vm.stack[
                      vm.top + CurInst.out + 1]]_vars

\* main_proto(Bar 5) computed x + 5 with the native Bar::ADD, giving Bar 10;
\* the unit's Bar::ADD would have returned its second argument, 5.
C12_Witness ==
    /\ entry = HostCall("main_proto", <<Val("Bar", 5)>>)
    /\ halt.k = "Exited"
    /\ StackAt(vm, halt.addr) = Val("Bar", 10)
    /\ total = 4


\* The operator applied, its operands and the Vm it was applied to.
OpName == entry.name
Lhs == entry.args[1]
Rhs == IF OpName \in {op \o "AssignSame" : op \in ArithmeticOp} THEN entry.args[1]
       ELSE entry.args[2]
Before == with_stack(entry.args)
PlainOp(op) == OpName = op
AssignOp(op) == OpName \in {op \o "Assign", op \o "AssignSame"}
\* The protocol of the operator applied.
ProtocolOf ==
    IF OpName = "Not" THEN "NOT"
    ELSE IF OpName \in ArithmeticOp THEN ArithmeticOps(OpName).protocol
    ELSE CHOOSE p \in {AssignArithmeticOps(op).protocol : op \in ArithmeticOp} :
            \E op \in ArithmeticOp : AssignOp(op) /\ p = AssignArithmeticOps(op).protocol
\* Neither the unit nor the context has the protocol function of the value.
NoFunction(value, protocol) ==
    LET hash == associated_function(type_hash(value), protocol) IN
    ~UnitHas(hash) /\ ~ContextHas(hash)
\* No built-in rule takes the operands, and no protocol function is found.
NoBinary ==
    /\ OpName \notin {"", "Not"}
    /\ ~(Lhs.t = "Int" /\ IsInline(Rhs))
    /\ IsAny(Lhs) => NoFunction(Lhs, ProtocolOf)
NoUnary ==
    /\ OpName = "Not"
    /\ Lhs.t \notin {"Bool", "Int"}
    /\ IsAny(Lhs) => NoFunction(Lhs, ProtocolOf)

MulStep ==
    /\ HostStep
    /\ CurInst.op = "Mul"
    /\ StackAt(vm, CurInst.a).t = "Foo"
    /\ StackAt(vm, CurInst.b).t = "Int"
    /\ StackAt(vm, CurInst.b).v >= 0

\* The native function is called with (x, 5) and its result is the output of
\* the instruction; the arguments pushed for the call are gone again.
C14_Step ==
    MulStep =>
        /\ StoreOk(vm, CurInst.out)
        /\ vm' = StackStore(Fetched, CurInst.out,
                            Val("Foo", StackAt(vm, CurInst.a).v * StackAt(vm, CurInst.b).v))
        /\ heap' = heap
        /\ halt' = halt

C14_Result ==
    (entry = HostCall("main_mul", <<Val("Foo", 5)>>) /\ halt.k = "Exited") =>
        StackAt(vm, halt.addr) = Val("Foo", 25)

\* C14: with a MUL protocol function registered by the host for the
\* any-object type Foo, x * 5 with x a Foo calls that function with (x, 5)
\* and the output of the instruction is its result: Foo holding 5 gives Foo
\* holding 25.
C14_CustomMul == [][C14_Step]_vars /\ []C14_Result

\* main_mul(Foo 5) exited with Foo 25 after Allocate, Store, Mul, Return.
C14_Witness ==
    /\ entry = HostCall("main_mul", <<Val("Foo", 5)>>)
    /\ halt.k = "Exited"
    /\ StackAt(vm, halt.addr) = Val("Foo", 25)
    /\ ContextHas("Foo::MUL")
    /\ ~UnitHas("Foo::MUL")
    /\ total = 4


\* The operator applied is an arithmetic operator, plain or assigning, on two
\* inline integers.
OpOf == CHOOSE op \in ArithmeticOp : PlainOp(op) \/ AssignOp(op)
IntPair ==
    /\ OpName \notin {"", "Not"}
    /\ Lhs.t = "Int"
    /\ Rhs.t = "Int"
Abs(n) == IF n < 0 THEN -n ELSE n
\* The quotient rounded towards zero, of a divisor that is not zero.
Quot(l, r) ==
    CHOOSE q \in (IntMin - 1)..(IntMax + 1) :
        LET m == l - q * r IN Abs(m) < Abs(r) /\ (m = 0 \/ (m < 0) = (l < 0))
\* The mathematical result of the operator.
Exact(op, l, r) ==
    CASE op = "Add" -> l + r
      [] op = "Sub" -> l - r
      [] op = "Mul" -> l * r
      [] op = "Div" -> Quot(l, r)
      [] op = "Rem" -> l - r * Quot(l, r)
ZeroDivisor == OpOf \in {"Div", "Rem"} /\ Rhs.v = 0
Unfit ==
    /\ ~ZeroDivisor
    /\ Exact(OpOf, Lhs.v, Rhs.v) < IntMin \/ Exact(OpOf, Lhs.v, Rhs.v) > IntMax
\* The slot the operator writes: out of the plain form, the target of the
\* assigning form.
Destination == IF OpName \in ArithmeticOp THEN 2 ELSE 0

\* C15: Add, Sub, Mul, Div and Rem on two inline integers whose mathematical
\* result does not fit the integer type, or whose divisor is zero, fail with
\* an overflow, underflow or divide-by-zero error instead of wrapping, in
\* the plain and in the assignment form, and the destination is not
\* written; a result that fits is the one stored.
C15_Checked ==
    /\ (IntPair /\ (ZeroDivisor \/ Unfit)) =>
          /\ halt.k = "Error"
          /\ halt.err \in {"Overflow", "Underflow", "DivideByZero"}
          /\ vm = Before
    /\ (IntPair /\ halt = NoHalt) =>
          /\ ~ZeroDivisor
          /\ ~Unfit
          /\ vm = StackStore(Before, Destination, IntV(Exact(OpOf, Lhs.v, Rhs.v)))

\* IntMax += 1 failed with Overflow and the target still holds IntMax.
C15_Witness ==
    /\ OpName = "AddAssign"
    /\ Lhs = IntV(IntMax)
    /\ Rhs = IntV(1)
    /\ halt = VmErr("Overflow")
    /\ StackAt(vm, 0) = IntV(IntMax)


\* A Select was executed over future handles only; Pending are the branch
\* indices of those not completed at entry.
Selected == entry.name = "Select" /\ \A i \in 1..Len(entry.args) : entry.args[i].t = "Future"
Pending == {b \in 0..(Len(entry.args) - 1) : heap[entry.args[b + 1].v].execution}
\* What Select leaves behind with the future of branch b tagged base + b.
SelectOutcome(base) ==
    Selected =>
        IF Pending = {}
        THEN /\ halt = NoHalt
             /\ StackAt(vm, MaxSelect) = UnitV
             /\ SubSeq(vm.stack, 1, MaxSelect) \in [1..MaxSelect -> SelectOperands]
        ELSE /\ halt.k = "Awaited"
             /\ halt.out = MaxSelect
             /\ halt.select = {SelectFuture(base + b, entry.args[b + 1].v) : b \in Pending}
             /\ StackAt(vm, MaxSelect) = EmptyV

\* C16 (as stated): Select skips the futures already completed; with every
\* future completed it writes unit to its output and does not suspend,
\* otherwise run returns Awaited(Select) over exactly the futures not yet
\* completed, each tagged with its branch index.
C16_Index == SelectOutcome(0)

\* C16 (what the code does): the same, with each future tagged with ip plus
\* its branch index, ip being the address after the Select; without
\* suspending, ip moves on by len past the branches.
C16_Select ==
    /\ SelectOutcome(vm.ip)
    /\ (Selected /\ Pending = {}) => vm.ip \in {1 + Len(entry.args), 5 + Len(entry.args)}
    /\ (Selected /\ Pending # {}) => vm.ip \in {1, 5}
    /\ heap = SelectHeap

\* Select at ip 4 over a completed and two pending futures: Awaited over the
\* branches 1 and 2, tagged 6 and 7.
C16_Witness ==
    /\ entry = HostCall("Select", <<Val("Future", 1), Val("Future", 2), Val("Future", 2)>>)
    /\ halt = Awaited({SelectFuture(6, 2), SelectFuture(7, 2)}, MaxSelect)
    /\ vm.ip = 5


\* C17: after any sequence of try_push_front, try_push_back, pop_front and
\* pop_back, wrapping around the end of the buffer and growing the capacity
\* included, the deque holds front to back what an ideal double-ended
\* sequence holds after the same operations, and every pop returned what
\* the ideal sequence returns: None on an empty deque, else the element at
\* that end.
C17_Ideal ==
    /\ Contents(deque) = ideal.seq
    /\ deque.len = Len(ideal.seq)
    /\ deque.len <= capacity(deque)
    /\ deque.head < capacity(deque) \/ capacity(deque) = 0
    /\ ideal.ret = ideal.exp
    /\ ~deque.ub
    /\ Uninit \notin {ideal.seq[i] : i \in 1..Len(ideal.seq)}

\* pop_front returned 1, the first value pushed at the back, from a deque
\* that grew to MaxCap and wraps around the end of its buffer.
C17_Witness ==
    /\ ideal.op = "pop_front"
    /\ ideal.ret = Some(IntV(1))
    /\ capacity(deque) = MaxCap
    /\ deque.head + deque.len > capacity(deque)
    /\ deque.len >= 3


\* make_contiguous applied to the deque d: the second slice is empty, the
\* first slice holds the elements of d front to back.
Contiguous(d, before) ==
    /\ as_slices(d)[2] = <<>>
    /\ as_slices(d)[1] = before
    /\ Contents(d) = before
    /\ ~d.ub

C18_Step == ideal'.op = "make_contiguous" => Contiguous(deque', Contents(deque))

\* C18: after make_contiguous on a deque of any head position and any
\* length up to its capacity, the second slice of as_slices is empty and
\* the elements front to back are those before the call.
C18_Contiguous ==
    [][C18_Step]_vars /\ [] Contiguous(make_contiguous(deque), Contents(deque))

\* make_contiguous found 5 elements in 6 slots at head 3 (3 before the end
\* of the buffer, 2 after it, 1 slot free) and left them at head 1.
C18_Witness ==
    /\ ideal.op = "make_contiguous"
    /\ ideal.arg = 3
    /\ capacity(deque) = 6
    /\ deque.len = 5
    /\ deque.head = 1
    /\ as_slices(deque) = <<ideal.prev, <<>>>>

C19_Step ==
    (ideal.op = "rotate_left" /\ ideal'.op = "rotate_right" /\ ideal'.arg = ideal.arg) =>
        /\ Contents(deque') = ideal.prev
        /\ ~deque'.ub
        /\ ~deque'.panicked

\* C19: for every deque and every k with 0 <= k <= len, rotate_left(k)
\* followed by rotate_right(k) leaves the elements front to back unchanged.
C19_RoundTrip ==
    /\ [][C19_Step]_vars
    /\ [] \A k \in 0..deque.len :
            LET d == rotate_right(rotate_left(deque, k), k) IN
            Contents(d) = Contents(deque) /\ ~d.ub /\ ~d.panicked

\* rotate_right(2) just after rotate_left(2) on a full deque of 5 elements
\* that does not start at the head of its buffer.
C19_Witness ==
    /\ ideal.op = "rotate_right"
    /\ ideal.undo
    /\ ideal.arg = 2
    /\ deque.len = 5
    /\ capacity(deque) = 5
    /\ deque.head # 0
    /\ Contents(deque) = ideal.seq

\* The rune function rotate_left returned: with mid <= len the element at
\* index i is the one that was at index i + mid, cyclically.
C20_Cyclic ==
    ideal.op = "module_rotate_left" =>
        IF ideal.arg <= Len(ideal.prev)
        THEN /\ ideal.err = NoHalt
             /\ deque.len = Len(ideal.prev)
             /\ \A i \in 0..(deque.len - 1) :
                    Contents(deque)[i + 1] = ideal.prev[((i + ideal.arg) % deque.len) + 1]
             /\ ~deque.ub
             /\ ~deque.panicked
        ELSE /\ ideal.err = OutOfRange(ideal.arg, Len(ideal.prev))
             /\ Contents(deque) = ideal.prev

C20_Example ==
    (/\ ideal.op = "module_rotate_left"
     /\ ideal.arg = 3
     /\ ideal.prev = [i \in 1..RangeLen |-> IntV(i - 1)]) =>
        Contents(deque) = <<IntV(3), IntV(4), IntV(5), IntV(6), IntV(7), IntV(8), IntV(9),
                            IntV(0), IntV(1), IntV(2)>>

\* C20: rotate_left(mid) with mid <= len moves the first mid elements to the
\* back, so that the element that was at index mid is the front and the
\* cyclic order is kept; the deque built from 0..10 and rotated left by 3
\* is [3, 4, 5, 6, 7, 8, 9, 0, 1, 2].
C20_RotateLeft == C20_Cyclic /\ C20_Example

\* The deque collected from 0..10, rotated left by 3.
C20_Witness ==
    /\ ideal.op = "module_rotate_left"
    /\ ideal.arg = 3
    /\ ideal.prev = [i \in 1..RangeLen |-> IntV(i - 1)]
    /\ Contents(deque)[1] = IntV(3)
    /\ Contents(deque)[RangeLen] = IntV(2)
    /\ deque.head = 3


\* The sequence with x inserted at index i
Inserted(seq, i, x) == SubSeq(seq, 1, i) \o <<x>> \o SubSeq(seq, i + 1, Len(seq))
Ascending(seq) == \A i \in 1..Len(seq) : \A j \in i..Len(seq) : seq[i].v <= seq[j].v

\* C21: on a deque sorted ascending, binary_search(x) returning Ok(i)
\* implies the element at index i is x, and returning Err(i) implies
\* 0 <= i <= len and that x inserted at index i keeps the deque sorted,
\* also when the elements wrap around the end of the buffer.
C21_Search ==
    /\ Ascending(Contents(deque))
    /\ ideal.op = "binary_search" =>
        LET seq == Contents(deque)
            i == ideal.ret.index
        IN  IF ideal.ret.ok
            THEN i < Len(seq) /\ seq[i + 1] = IntV(ideal.arg)
            ELSE /\ i \in 0..Len(seq)
                 /\ Ascending(Inserted(seq, i, IntV(ideal.arg)))
                 /\ IntV(ideal.arg) \notin {seq[k] : k \in 1..Len(seq)}

\* A search found its element past the first element of the second slice
\* of a deque that wraps around.
C21_Witness ==
    /\ ideal.op = "binary_search"
    /\ ideal.ret.ok
    /\ as_slices(deque)[2] # <<>>
    /\ ideal.ret.index > Len(as_slices(deque)[1])
    /\ Len(as_slices(deque)[1]) >= 2


\* C22: a compound deque operation (try_resize, try_resize_with, the
\* script-level extend) that fails part-way leaves the deque with the
\* length and the contents it had before the operation started.
C22_Transactional ==
    (ideal.op \in {"try_resize", "try_resize_with", "extend"} /\ ideal.err # NoHalt) =>
        /\ deque.len = Len(ideal.prev)
        /\ Contents(deque) = ideal.prev


\* The rune function called last was given an index out of range.
OutOfBounds(op, index, len) ==
    \/ op \in {"module_insert", "module_rotate_left", "module_rotate_right"} /\ index > len
    \/ op \in {"module_get", "module_set"} /\ index >= len

C23_Step ==
    OutOfBounds(ideal'.op, ideal'.arg, deque.len) =>
        /\ ideal'.err = OutOfRange(ideal'.arg, deque.len)
        /\ deque' = deque
        /\ ~deque'.panicked
        /\ ~deque'.ub

Ordered(a, b) ==
    /\ a.t = b.t
    /\ a.t \in {"Int", "Float"}
    /\ a.t = "Float" => a.v # NaN /\ b.v # NaN

\* C24: (..end).contains(v) is true exactly when end compares strictly
\* Greater than v under partial comparison: every v below end is contained,
\* v equal to end and v above end are not, and a pair without an ordering
\* gives false.
C24_Contains ==
    range.called =>
        /\ range.ret.ok =>
            (range.ret.bool <=> (Ordered(range.end, range.value) /\ range.value.v < range.end.v))
        /\ Ordered(range.end, range.value) => range.ret.ok
        /\ (range.end.t = "Float" /\ range.value.t = "Float") =>
                range.ret.ok /\ (NaN \in {range.end.v, range.value.v} => ~range.ret.bool)
        /\ ~range.ret.ok => ~range.ret.bool /\ range.ret.err.err = "UnsupportedBinaryOperation"

\* (..1).contains(0) answered true.
C24_Witness ==
    /\ range.called
    /\ range.end = IntV(1)
    /\ range.value = IntV(0)
    /\ range.ret = Answered(TRUE)


\* C25: a host reference (&T or &mut T) passed as an argument of a call of
\* the Vm is usable only for the duration of the call: once the call has
\* returned, the first field of a tuple struct or variant that captured the
\* reference can no longer be borrowed, while an argument passed by value
\* can still be borrowed in the result.
C25_Guarded ==
    /\ (host.mode \in {"ref", "mut", "any"} /\ host.ok /\ tuple_first(heap, host.value).some) =>
            host.during
    /\ host.borrowed # "none" =>
            (host.borrowed = "ok" <=> host.mode = "any")
    /\ \A cell \in 1..Len(heap) :
            (heap[cell].kind = "AnyObj" /\ heap[cell].guarded) => ~heap[cell].valid

\* A tuple struct built from &mine was returned, and its first field could
\* not be borrowed.
C25_Witness ==
    /\ host.name = "tuple"
    /\ host.mode = "ref"
    /\ host.during
    /\ host.borrowed = "err"

\* ------------------------------------------------------------------------
\* Template strings

\* The template strings, interpolated expressions and braces of an
\* expression that the characters source[i..] leave open behind `open`:
\* in a template string `${` opens an expression, a backslash hides the
\* next character and the delimiter closes the string; in an expression a
\* brace opens or closes one level and the delimiter opens a string.
RECURSIVE Unclosed(_, _, _)
Unclosed(source, i, open) ==
    LET c == source[i]
        top == IF open = <<>> THEN "" ELSE open[Len(open)]
        closed == SubSeq(open, 1, Len(open) - 1)
    IN
    IF i > Len(source) THEN open
    ELSE IF top = "template" THEN
        IF c = "\\" THEN Unclosed(source, i + 2, open)
        ELSE IF c = "$" /\ i < Len(source) /\ source[i + 1] = "{"
        THEN Unclosed(source, i + 2, Append(open, "expression"))
        ELSE IF c = Backtick THEN Unclosed(source, i + 1, closed)
        ELSE Unclosed(source, i + 1, open)
    ELSE IF c = Backtick THEN Unclosed(source, i + 1, Append(open, "template"))
    ELSE IF c = "{" /\ open # <<>>
    THEN Unclosed(source, i + 1, Append(open, "brace"))
    ELSE IF c = "}" /\ open # <<>> THEN Unclosed(source, i + 1, closed)
    ELSE Unclosed(source, i + 1, open)

\* the mode that the lexer keeps for the i-th open construct when that is
\* an expression or a brace: its depth above the template string around it
ModeOf(open, i) ==
    LET below == {j \in 1..i : open[j] = "template"}
        string == CHOOSE j \in below : \A k \in below : k <= j
    IN Default(i - string)

\* The mode stack holds one mode for each construct that the consumed
\* characters leave open: each `${` has opened an expression that only its
\* matching brace ends.
ModesMatch ==
    LET open == Unclosed(SubSeq(lexer.source, 1, lexer.cursor), 1, <<>>) IN
    (lexer.process /\ ~Failed(lexer)) =>
        /\ Len(lexer.modes) = Len(open)
        /\ \A i \in 1..Len(open) :
              IF open[i] = "template" THEN lexer.modes[i].mode = "Template"
              ELSE lexer.modes[i] = ModeOf(open, i)

\* the end of the token stream is reported only over a source that leaves
\* nothing open
EofClosed ==
    lexer.result.tag = "None" => Unclosed(lexer.source, 1, <<>>) = <<>>

\* at the end of a source that leaves a construct open the lexer fails
EofFails ==
    (lexer.drained /\ Unclosed(lexer.source, 1, <<>>) # <<>>) =>
        /\ lexer.result.tag = "Err"
        /\ lexer.result.kind \in {"BadLexerMode", "UnexpectedEof"}

\* C26: while a template string is lexed, each `${` opens an expression that
\* ends only at its matching brace, nested braces being counted, and the end
\* of the token stream is reported successfully only when every template
\* string and every interpolated expression is closed; otherwise lexing
\* fails with BadLexerMode or UnexpectedEof.
C26_Balanced == ModesMatch /\ EofClosed /\ EofFails


\* ------------------------------------------------------------------------
\* Labels and char literals

\* a quote followed by one or more identifier-continuation characters
LabelSource(source) ==
    /\ Len(source) >= 2
    /\ source[1] = "'"
    /\ \A i \in 2..Len(source) : is_xid_continue(source[i])

\* a quote, a single character or an escape, and a closing quote
CharSource(source) ==
    /\ source[1] = "'"
    /\ source[Len(source)] = "'"
    /\ \/ Len(source) = 3 /\ source[2] \notin {"'", "\\"}
                          /\ ~is_control(source[2])
       \/ Len(source) = 4 /\ source[2] = "\\"

\* C27: the first token of a source that is a quote followed by one or more
\* identifier-continuation characters and no closing quote is a label, and
\* the first token of a quote, a single character or escape and a closing
\* quote is a char literal.
C27_Label ==
    [][lexer.result = LexOk =>
          /\ LabelSource(lexer.source) =>
                lexer'.result = Token("Label", 0, Len(lexer.source))
          /\ CharSource(lexer.source) =>
                lexer'.result = Token("Char", 0, Len(lexer.source))]_vars

\* ------------------------------------------------------------------------
\* Imports

\* the resolution has returned
Resolved == query.result # ""

\* C28 as stated: resolving a path through imports terminates, and a round
\* that starts at an item which the resolution has held before is rejected
\* with ImportCycle.
C28_Cycle ==
    /\ <>Resolved
    /\ [][query.item \in query.held => query'.result = "ImportCycle"]_vars

\* C28: resolving a path through imports terminates, and a round that
\* starts at an item which the resolution has held before is rejected: with
\* ImportCycle while the rounds are within the recursion limit and with
\* ImportRecursionLimit beyond it.
C28_Import ==
    /\ <>Resolved
    /\ [][query.item \in query.held =>
             query'.result = IF query.count > IMPORT_RECURSION_LIMIT
                             THEN "ImportRecursionLimit"
                             ELSE "ImportCycle"]_vars

C28_Witness ==
    /\ query # <<>>
    /\ query.result = "ImportCycle"
    /\ Cardinality(query.visited) = 2


\* ------------------------------------------------------------------------
\* Reference counts of the slab Vm

Slots(v) == {k \in 0..(Len(v.values.entries) - 1) : slab_contains(v.values, k)}

LiveArrays(v) ==
    {k \in 0..(Len(v.arrays.entries) - 1) : slab_contains(v.arrays, k)}

StackRefs(v, slot) == Cardinality({i \in 1..Len(v.stack) : v.stack[i] = slot})

ArrayRefs(v, slot) ==
    Cardinality({e \in UNION {{<<k, i>> :
                                 i \in 1..Len(slab_get(v.arrays, k).array)} :
                              k \in LiveArrays(v)} :
                    slab_get(v.arrays, e[1]).array[e[2]] = slot})

\* each slot counts the stack entries and the elements of live arrays that
\* refer to it, and a slot with no reference left has been removed
RefCounts(v) ==
    /\ v.gc_freed = <<>>
    /\ \A slot \in Slots(v) :
          /\ slab_get(v.values, slot).count > 0
          /\ slab_get(v.values, slot).count
                = StackRefs(v, slot) + ArrayRefs(v, slot)

\* no stack entry and no element of a live array refers to a removed slot
NoDangling(v) ==
    /\ \A i \in 1..Len(v.stack) : v.stack[i] \in Slots(v)
    /\ \A k \in LiveArrays(v) :
          \A i \in 1..Len(slab_get(v.arrays, k).array) :
              slab_get(v.arrays, k).array[i] \in Slots(v)

\* the payloads in the slabs are those of the slots, one for each
Payloads(v) ==
    LET Holders(kind, key) ==
            {slot \in Slots(v) : /\ slab_get(v.values, slot).kind = kind
                                 /\ slab_get(v.values, slot).data = key}
        Keys(slab) == {k \in 0..(Len(slab.entries) - 1) : slab_contains(slab, k)}
    IN
    /\ \A slot \in Slots(v) :
          LET holder == slab_get(v.values, slot) IN
          /\ holder.kind = "String" => slab_contains(v.strings, holder.data)
          /\ holder.kind = "Array" => slab_contains(v.arrays, holder.data)
          /\ holder.kind = "External" => slab_contains(v.externals, holder.data)
    /\ \A k \in Keys(v.strings) : Cardinality(Holders("String", k)) = 1
    /\ \A k \in Keys(v.arrays) : Cardinality(Holders("Array", k)) = 1
    /\ \A k \in Keys(v.externals) : Cardinality(Holders("External", k)) = 1

\* a copy has added one to the count of its slot; a pop has taken one from
\* it, and has removed the slot when that was its last reference
Counted(v, done) ==
    /\ done.op = "Copy" => slab_get(v.values, done.slot).count = done.count + 1
    /\ done.op = "Pop" /\ done.count > 1 =>
          slab_get(v.values, done.slot).count = done.count - 1
    /\ done.op = "Pop" /\ done.count = 1 => done.slot \notin Slots(v)

ProtocolHash == associated_function(type_hash(Lhs), ProtocolOf)
\* An arithmetic instruction was applied to a left operand for whose type
\* the unit or the context has the operator's protocol function.
Registered ==
    /\ OpName \in ArithmeticOp
    /\ ~IsInline(Lhs)
    /\ ~NoFunction(Lhs, ProtocolOf)
\* The native handler was called with the operands and stored its result in
\* the output.
Handled ==
    LET r == HandlerCall(ProtocolHash, Before, <<>>, 0, 2, 2) IN
    /\ halt = r.halt
    /\ vm = r.vm
\* The Vm entered the function of the unit with the operands as its
\* arguments, or rejected their number.
Entered ==
    LET info == UnitFunctions[ProtocolHash] IN
    IF ~check_args(2, info.args) THEN halt = BadArgumentCount(2, info.args) /\ vm = Before
    ELSE /\ halt = NoHalt
         /\ vm.ip = info.offset
         /\ Len(vm.call_frames) = 1
         /\ vm.call_frames[1].out = 2
         /\ SubSeq(vm.stack, vm.top + 1, vm.top + 2) = <<Lhs, Rhs>>
Dispatched == IF ContextHas(ProtocolHash) THEN Handled ELSE Entered

\* C30 as stated: arithmetic whose left operand is any value that is not
\* inline, an instance of a script-defined struct included, is dispatched
\* through the operator's protocol function when one is registered for the
\* type of the left operand.
C30_Dispatch == Registered => Dispatched

\* C30: arithmetic whose left operand is an any-object is dispatched through
\* the operator's protocol function when one is registered for its type;
\* with any other left operand that is not inline, an instance of a
\* script-defined struct included, the instruction fails with
\* UnsupportedBinaryOperation and leaves the Vm as it was, whether or not a
\* protocol function is registered.
C30_AnyDispatch ==
    /\ (Registered /\ IsAny(Lhs)) => Dispatched
    /\ (OpName \in ArithmeticOp /\ ~IsInline(Lhs) /\ ~IsAny(Lhs)) =>
          /\ halt = UnsupportedBinaryOperation(ProtocolOf, type_info(Lhs), type_info(Rhs))
          /\ vm = Before
          /\ heap = <<>>

\* Foo 5 + 1 entered the unit's Foo::ADD.
C30_Witness ==
    /\ OpName = "Add"
    /\ Lhs = Val("Foo", 5)
    /\ Rhs = IntV(1)
    /\ Registered
    /\ vm.ip = UnitFunctions["Foo::ADD"].offset
    /\ Len(vm.call_frames) = 1



\* The function call_hash_with found for the call made, and the call left
\* no call frame behind.
NoFramePushed ==
    /\ entry.name # ""
    /\ last.k = "Ok"
    /\ vm.call_frames = <<>>
NativeCall == NoFramePushed /\ ContextHas(entry.name)
UnframedCall ==
    /\ NoFramePushed
    /\ ~ContextHas(entry.name)
    /\ UnitHas(entry.name)
    /\ UnitFunctions[entry.name].call # "Immediate"
    /\ check_args(total, UnitFunctions[entry.name].args)

\* C31: a protocol call made through call_hash_with that pushes no call
\* frame, be it a native handler of the context that succeeds or fails or a
\* function of the unit that is a generator, async or a stream, leaves the
\* stack of the caller at the length it had before the target and the
\* arguments were pushed.
C31_Length == (NativeCall \/ UnframedCall) => Len(vm.stack) = Len(entry.args)



\* The last instruction wrote at an index of a Result at which reading its
\* payload succeeds.
SetReadable ==
    /\ entry.name = "Set"
    /\ entry.args[1].t \in {"Ok", "Err"}
    /\ try_tuple_like_index_get(entry.heap, entry.args[1], entry.index).k = "Some"

\* C32: tuple index get and tuple index set agree on a Result.  At every
\* index at which reading the payload of Ok(v) or Err(e) succeeds, writing
\* succeeds, and reading at that index then returns the value written.
C32_GetSet ==
    SetReadable =>
        /\ halt = NoHalt
        /\ try_tuple_like_index_get(heap, StackAt(vm, 0), entry.index) =
              IndexSome(entry.args[2])



\* C33: JumpIf transfers control exactly when its condition is the boolean
\* true and JumpIfNot exactly when it is the boolean false; with a condition
\* that is no boolean neither jumps nor fails, and execution goes on with
\* the next instruction.  The stack is left as it was.
C33_Jump ==
    /\ entry.name = "JumpIf" =>
          /\ halt = NoHalt
          /\ vm.ip = IF entry.args[1] = BoolV(TRUE) THEN entry.jump ELSE entry.ip
          /\ vm.stack = entry.args
    /\ entry.name = "JumpIfNot" =>
          /\ halt = NoHalt
          /\ vm.ip = IF entry.args[1] = BoolV(FALSE) THEN entry.jump ELSE entry.ip
          /\ vm.stack = entry.args

\* JumpIf on the integer 1 went on with the next instruction.
C33_Witness ==
    /\ entry.name = "JumpIf"
    /\ entry.args = <<IntV(1)>>
    /\ entry.jump # entry.ip
    /\ vm.ip = entry.ip
    /\ halt = NoHalt



\* C34: the instructions executed by a run and by the runs nested in it,
\* started while the outer run holds its guard, count against one budget:
\* together they never exceed the budget installed by the enclosing
\* budget::with.
C34_Shared ==
    (callstack # <<>> /\ callstack[1].kind = "with") => total <= callstack[1].n



\* The units granted to the future over all its polls are at most n, and
\* between polls the future holds what the n units less the granted leave.
C35_Total ==
    /\ total <= entry.n
    /\ callstack = <<>> => entry.budget = entry.n - total
\* A poll installs the budget the poll before left.
C35_Carry ==
    (callstack = <<>> /\ callstack' # <<>> /\ entry.polls > 0) =>
        /\ budget' = last.left
        /\ budget' = entry.budget
\* When a poll returns the budget of the thread is what it was before the
\* poll.
C35_Restore == (callstack # <<>> /\ callstack' = <<>>) => budget' = callstack[1].pre

\* C35: a future wrapped by budget::with(n, fut) is limited to n units over
\* all of its polls: the budget left at the end of one poll is the budget
\* installed at the start of the next, and the budget of the thread is
\* restored to what it was before the poll after every poll.
C35_Poll == []C35_Total /\ [][C35_Carry /\ C35_Restore]_vars

\* A future with 3 units was granted 2 in its first poll and 1 in the second,
\* which was then refused; the thread has its own budget back.
C35_Witness ==
    /\ entry.n = 3
    /\ entry.polls = 2
    /\ last.n = 1
    /\ last.failed = Limited
    /\ total = 3
    /\ entry.budget = 0
    /\ budget = MaxBudget + 1


\* ------------------------------------------------------------------------
\* Return from the entry function

\* The run of the host's Vm is about to execute Return or ReturnUnit with no
\* call frame, and the value the instruction returns.
EntryReturnStep == HostStep /\ CurInst.op \in {"Return", "ReturnUnit"} /\ ~HasFrame
ReturnValue == IF CurInst.op = "Return" THEN StackAt(vm, CurInst.a) ELSE UnitV

C36_Step ==
    EntryReturnStep =>
        /\ vm'.stack = <<ReturnValue>>
        /\ vm'.top = 0
        /\ vm'.call_frames = <<>>
        /\ halt' = Exited(0)
        /\ StackAt(vm', halt'.addr) = ReturnValue
        /\ callstack' = Pop

\* C36: executing Return or ReturnUnit when the call-frame stack is empty
\* (the entry function installed by set_entrypoint returning) is an isolated
\* exit: the stack is cut to length 0, the return value is pushed as its only
\* element, and run returns Exited with the address of that element.
C36_EntryReturn == [][C36_Step]_vars

\* The entry function rec returned an integer from above its own slots, and
\* an entry function returned unit.
C36_Witness ==
    /\ entry.name = "rec" /\ halt = Exited(0)
    /\ vm.call_frames = <<>> /\ Len(vm.stack) = 1
    /\ vm.stack[1].t = "Int"
    /\ callstack = <<>>


\* ------------------------------------------------------------------------
\* The public operations of the deque in any order, the last one recorded

\* The operation op took the deque to d.
Laid(op, d) ==
    /\ deque' = d
    /\ ideal' = [ideal EXCEPT !.op = op]
    /\ UNCHANGED <<vmvars, others>>

LaidPushFront(c) == Laid("try_push_front", try_push_front(deque, IntV(1), c).d)
LaidPushBack(c) == Laid("try_push_back", try_push_back(deque, IntV(1), c).d)
LaidPopFront == Laid("pop_front", pop_front(deque).d)
LaidPopBack == Laid("pop_back", pop_back(deque).d)
LaidMakeContiguous == Laid("make_contiguous", make_contiguous(deque))
LaidRotateLeft(mid) == Laid("rotate_left", module_rotate_left(deque, mid).d)
LaidRotateRight(k) == Laid("rotate_right", module_rotate_right(deque, k).d)
LaidInsert(index, c) == Laid("insert", module_insert(deque, index, IntV(1), c).d)
LaidSet(index) == Laid("set", module_set(deque, index, IntV(1)).d)
LaidResize(new_len, clones, allocs) ==
    Laid("try_resize", try_resize(deque, new_len, IntV(1), clones, allocs).d)
LaidExtend(n, failing, allocs) ==
    Laid("extend", module_extend(deque, [i \in 1..n |-> IntV(1)], failing, allocs).d)

\* What the allocator gives to the calls of try_grow of one operation: nothing,
\* or one capacity, or one capacity and then the largest.
Grants ==
    {<<>>} \cup {<<c>> : c \in 1..MaxCap} \cup {<<c, MaxCap>> : c \in 1..MaxCap}

NextInvariant ==
    \/ \E c \in Allocations(deque) : LaidPushFront(c)
    \/ \E c \in Allocations(deque) : LaidPushBack(c)
    \/ LaidPopFront
    \/ LaidPopBack
    \/ LaidMakeContiguous
    \/ \E mid \in Indices : LaidRotateLeft(mid)
    \/ \E k \in Indices : LaidRotateRight(k)
    \/ \E index \in Indices, c \in Allocations(deque) : LaidInsert(index, c)
    \/ \E index \in Indices : LaidSet(index)
    \/ \E new_len \in 0..MaxResize, clones \in {1, MaxResize}, allocs \in Grants :
            LaidResize(new_len, clones, allocs)
    \/ \E n \in 0..MaxGrow, failing \in BOOLEAN, allocs \in Grants :
            LaidExtend(n, failing, allocs)

SpecInvariant == InitDeque /\ [][NextInvariant]_vars

\* The fields of the deque are in the ranges the struct documents.
HeadInRange(d) == IF capacity(d) = 0 THEN d.head = 0 ELSE d.head < capacity(d)
LenInRange(d) == d.len <= capacity(d)
\* The logical index i is the slot (head + i) mod capacity, which holds the
\* i-th element.
Physical(d, i) ==
    /\ to_physical_idx(d, i) = (d.head + i) % capacity(d)
    /\ get(d, i) = Some((d.head + i) % capacity(d))
    /\ buffer_read(d, (d.head + i) % capacity(d)) # Uninit

ExprKinds(expr) ==
    [i \in DOMAIN expr |->
        CASE expr[i] = "{" -> "Open(Brace)"
          [] expr[i] = "}" -> "Close(Brace)"
          [] OTHER -> "Ident"]

\* An argument: a string literal over [start, end) of the source, or the
\* tokens of an interpolation.
StrArg(start, end) == [str |-> TRUE, kinds |-> <<"Str">>, start |-> start, end |-> end]
ExprArg(kinds) == [str |-> FALSE, kinds |-> kinds, start |-> 0, end |-> 0]
IsText(segment) == segment \in {Literal, Escape}

RECURSIVE Arguments(_, _, _)
\* The arguments that the segments from position pos on add to args: text
\* next to text is one string literal.
Arguments(segments, pos, args) ==
    IF segments = <<>> THEN args
    ELSE LET s == Head(segments)
             end == pos + Len(s)
             n == Len(args) IN
         Arguments(Tail(segments), end,
             IF ~IsText(s)
             THEN Append(args, ExprArg(ExprKinds(SubSeq(s, 3, Len(s) - 1))))
             ELSE IF n > 0 /\ args[n].str
             THEN [args EXCEPT ![n].end = end]
             ELSE Append(args, StrArg(pos, end)))

RECURSIVE Joined(_)
\* The kinds of the arguments with a comma between one and the next
Joined(args) ==
    IF args = <<>> THEN <<>>
    ELSE IF Len(args) = 1 THEN args[1].kinds
    ELSE args[1].kinds \o <<"Comma">> \o Joined(Tail(args))

Kinds(toks) == [i \in DOMAIN toks |-> toks[i].kind]
Spans(toks) == [i \in DOMAIN toks |-> <<toks[i].start, toks[i].end>>]

\* The lexer has returned the whole expansion of the template string.
Expanded == lexer.result = Eof
OpeningLen == Len(TemplateOpening(0, 1))
\* The tokens between template!( and the closing parenthesis
ArgumentTokens == SubSeq(lexer.tokens, OpeningLen + 1, Len(lexer.tokens) - 2)
TemplateArguments == Arguments(lexer.segments, 1, <<>>)

\* No comma leads, no comma trails and no comma follows a comma.
Separated(kinds) ==
    /\ kinds # <<>> => kinds[1] # "Comma" /\ kinds[Len(kinds)] # "Comma"
    /\ \A i \in 1..(Len(kinds) - 1) : ~(kinds[i] = "Comma" /\ kinds[i + 1] = "Comma")

WellFormed ==
    /\ Kinds(SubSeq(lexer.tokens, 1, OpeningLen)) = Kinds(TemplateOpening(0, 1))
    /\ Kinds(SubSeq(lexer.tokens, Len(lexer.tokens) - 1, Len(lexer.tokens)))
            = <<"Close(Parenthesis)", "Close(Empty)">>
    /\ Kinds(ArgumentTokens) = Joined(TemplateArguments)
    /\ Separated(Kinds(ArgumentTokens))
    /\ Spans(SelectSeq(ArgumentTokens, LAMBDA t : t.kind = "Str"))
            = Spans(SelectSeq(TemplateArguments, LAMBDA a : a.str))

\* The statement as the specification has it: the tokens of every template
\* string are a well-formed argument list.
C38_Every == Expanded => WellFormed

\* Every interpolation of the template string holds a token.
NoEmptyInterpolation ==
    \A i \in DOMAIN lexer.segments : lexer.segments[i] # Interpolated(<<>>)

\* C38: the token stream produced for a template string whose interpolations
\* each hold at least one token is a well-formed argument list of template!:
\* string literals and interpolated expressions are in source order, one
\* comma separates an argument from the next, and no comma leads or trails,
\* whether the template starts or ends with an expression, has expressions
\* next to each other, or is empty.
C38_Arguments == (Expanded /\ NoEmptyInterpolation) => WellFormed

\* The template string of text, an interpolation and text again is expanded
\* to three arguments.
C38_Witness ==
    /\ Expanded
    /\ lexer.segments = <<Literal, Interpolated(<<"a">>), Escape>>
    /\ Kinds(ArgumentTokens) = <<"Str", "Comma", "Ident", "Comma", "Str">>


\* ------------------------------------------------------------------------
\* Several entries for one item

\* remove_indexed has found several entries for the item.
Several == query.item # <<>> /\ Len(query.entries) >= 2
Wildcards == {i \in DOMAIN query.entries :
                query.entries[i].import /\ query.entries[i].wildcard}
Others == DOMAIN query.entries \ Wildcards
\* One entry is an import that is no wildcard and the others are wildcards.
SingleImport ==
    /\ Cardinality(Others) = 1
    /\ \A i \in Others : query.entries[i].import

\* C39: when several indexed entries exist for the same item, resolution
\* yields the single non-wildcard import if all the other entries are
\* wildcard imports, regardless of the order in which they were indexed; any
\* other combination of two or more entries (two non-wildcard entries, or
\* only wildcard imports) fails with AmbiguousItem.
C39_Resolve ==
    Several =>
        IF SingleImport
        THEN \A i \in Others : query.result = SomeIndexed(query.entries[i])
        ELSE query.result.tag = "AmbiguousItem"

\* The import indexed between two wildcard imports was resolved.
C39_Witness ==
    /\ Several
    /\ query.entries = EntriesOf(<<"wildcard", "import", "wildcard">>)
    /\ query.result = SomeIndexed(IndexedImport(FALSE, 2))
    /\ query.item \notin DOMAIN query.indexed


\* ------------------------------------------------------------------------
\* The exited flag of the slab Vm

\* The flag is set by a Return or ReturnUnit that leaves no frame, and by
\* nothing else.
ExitedByReturn ==
    legacy'.vm.exited # legacy.vm.exited =>
        /\ legacy'.vm.exited
        /\ legacy'.op \in {"Return", "ReturnUnit"}
        /\ legacy'.vm.frames = <<>>
ReturnExits ==
    (legacy'.op \in {"Return", "ReturnUnit"} /\ legacy'.task = "running"
        /\ legacy'.executed = legacy.executed + 1)
        => legacy'.vm.exited = (legacy'.vm.frames = <<>>)
\* A task starts with the flag cleared.
StartsCleared == legacy'.op = "call_function" => ~legacy'.vm.exited
\* run_to_completion has evaluated an instruction of the task when it returns.
RunsFunction == legacy'.op = "run_to_completion" => legacy'.executed > 0

\* C40: on the slab Vm every call_function task runs its function: the
\* exited flag becomes true exactly when a Return or ReturnUnit pops the last
\* frame, and a later call_function on the same Vm starts with the flag
\* cleared, so that run_to_completion executes the instructions of the
\* function called rather than returning at once.
C40_Exited == [][ExitedByReturn /\ ReturnExits /\ StartsCleared /\ RunsFunction]_vars

====
